---- MODULE Spec2Model ----
(***************************************************************************)
(* ResumeMatch AI: the two AI stages (parseResumeFromText, analyzeResume   *)
(* in its Groq, OpenAI and Gemini variants), the resume formatter, the PDF *)
(* text extraction, the /api/parse-resume and /api/analyze routes and the  *)
(* ResumeAnalyzer component.  Spec is one invocation at a time of a stage, *)
(* a function or a route; UISpec is the component with the routes behind   *)
(* it; ConcSpec is several invocations of the stages interleaved.          *)
(* Strings are TLA+ strings; JavaScript string methods are operators over  *)
(* them.  A JSON value is a record [t, n, s, a] whose tag t is the         *)
(* JavaScript type of the value.                                           *)
(***************************************************************************)
EXTENDS Integers, Sequences, FiniteSets, TLC

(***************************************************************************)
(* Bounds of the model.                                                    *)
(***************************************************************************)
\* longest list of strings drawn for a list field of a record
MaxItems == 2
\* the number of invocations of the stages that run concurrently
MaxInvocations == 2

(***************************************************************************)
(* Let(v, F) is F(v) with v evaluated once, whatever the number of times F *)
(* uses its argument.                                                      *)
(***************************************************************************)
Let(v, F(_)) == CHOOSE r \in {F(x) : x \in {v}} : TRUE

(***************************************************************************)
(* JavaScript string methods.                                              *)
(***************************************************************************)
Min(a, b) == IF a < b THEN a ELSE b

CharAt(s, i) == SubSeq(s, i, i)

\* String.prototype.includes
Includes(s, sub) ==
  \E t \in {s}, u \in {sub} :
    \E i \in 1..(Len(t) - Len(u) + 1) : SubSeq(t, i, i + Len(u) - 1) = u

\* String.prototype.startsWith
StartsWith(s, pre) ==
  \E t \in {s}, u \in {pre} : Len(t) >= Len(u) /\ SubSeq(t, 1, Len(u)) = u

\* String.prototype.endsWith
EndsWith(s, suf) ==
  \E t \in {s}, u \in {suf} :
    Len(t) >= Len(u) /\ SubSeq(t, Len(t) - Len(u) + 1, Len(t)) = u

IsSpace(c) == c \in {" ", "\n", "\t", "\r"}

RECURSIVE SkipWs(_, _)
\* the first position from i on that holds no white space
SkipWs(s, i) ==
  IF i <= Len(s) /\ IsSpace(CharAt(s, i)) THEN SkipWs(s, i + 1) ELSE i

RECURSIVE SkipWsBack(_, _)
\* the last position up to i that holds no white space
SkipWsBack(s, i) ==
  IF i >= 1 /\ IsSpace(CharAt(s, i)) THEN SkipWsBack(s, i - 1) ELSE i

\* String.prototype.trim
Trim(s) ==
  Let(s, LAMBDA t : SubSeq(t, SkipWs(t, 1), SkipWsBack(t, Len(t))))

Upper == <<"A", "B", "C", "D", "E", "F", "G", "H", "I", "J", "K", "L", "M",
           "N", "O", "P", "Q", "R", "S", "T", "U", "V", "W", "X", "Y", "Z">>
Lower == <<"a", "b", "c", "d", "e", "f", "g", "h", "i", "j", "k", "l", "m",
           "n", "o", "p", "q", "r", "s", "t", "u", "v", "w", "x", "y", "z">>

LowerChar(c) ==
  IF \E k \in 1..26 : Upper[k] = c
  THEN Lower[CHOOSE k \in 1..26 : Upper[k] = c]
  ELSE c

RECURSIVE LowerFrom(_, _, _)
\* the characters i..j of s in lower case, by halves
LowerFrom(s, i, j) ==
  IF i > j THEN ""
  ELSE IF i = j THEN LowerChar(CharAt(s, i))
  ELSE LowerFrom(s, i, (i + j) \div 2) \o LowerFrom(s, (i + j) \div 2 + 1, j)

\* String.prototype.toLowerCase
ToLowerCase(s) == Let(s, LAMBDA t : LowerFrom(t, 1, Len(t)))

RECURSIVE JoinFrom(_, _, _)
JoinFrom(arr, sep, i) ==
  IF i > Len(arr) THEN ""
  ELSE IF i = Len(arr) THEN arr[i]
  ELSE arr[i] \o sep \o JoinFrom(arr, sep, i + 1)

\* Array.prototype.join on an array of strings
Join(arr, sep) == Let(arr, LAMBDA a : JoinFrom(a, sep, 1))

(***************************************************************************)
(* JSON values.  t is the JavaScript type of the value ("undefined" for a  *)
(* key the object does not have); n, s, a hold a number, a string, the     *)
(* elements of an array.  Array elements are atoms [t, n, s].  A document  *)
(* [v, f] is a decoded JSON text: v its value, f its members when v is an  *)
(* object.                                                                 *)
(***************************************************************************)
AStr(str) == [t |-> "string", n |-> 0, s |-> str]
ANum(num) == [t |-> "number", n |-> num, s |-> ""]
ANull == [t |-> "null", n |-> 0, s |-> ""]

JUndef == [t |-> "undefined", n |-> 0, s |-> "", a |-> <<>>]
JNull == [t |-> "null", n |-> 0, s |-> "", a |-> <<>>]
JObject == [t |-> "object", n |-> 0, s |-> "", a |-> <<>>]
JStr(str) == [t |-> "string", n |-> 0, s |-> str, a |-> <<>>]
JNum(num) == [t |-> "number", n |-> num, s |-> "", a |-> <<>>]
JArr(items) == [t |-> "array", n |-> 0, s |-> "", a |-> items]
StrArr(strs) == JArr([i \in 1..Len(strs) |-> AStr(strs[i])])

\* the member names the two schemas know, and one they do not
KeyOrder == <<"skills", "experience", "education", "contact",
              "matchPercentage", "matchedSkills", "missingSkills",
              "suggestions", "name">>
Keys == {KeyOrder[i] : i \in 1..Len(KeyOrder)}
NoMembers == [k \in Keys |-> JUndef]
Doc(value, members) == [v |-> value, f |-> members]
NoDoc == Doc(JUndef, NoMembers)

\* JavaScript truthiness of a JSON value: !x is ~Truthy(x)
Truthy(x) ==
  \E y \in {x} :
    CASE y.t = "undefined" -> FALSE
      [] y.t = "null" -> FALSE
      [] y.t = "string" -> y.s # ""
      [] y.t = "number" -> y.n # 0
      [] OTHER -> TRUE

(***************************************************************************)
(* JSON.stringify of a document, without indentation.                      *)
(***************************************************************************)
Quote(str) == "\"" \o str \o "\""

AtomText(atom) ==
  CASE atom.t = "string" -> Quote(atom.s)
    [] atom.t = "number" -> ToString(atom.n)
    [] OTHER -> "null"

ValueText(x) ==
  IF x.t = "array"
  THEN "[" \o Join([i \in 1..Len(x.a) |-> AtomText(x.a[i])], ",") \o "]"
  ELSE AtomText(x)

RECURSIVE MembersText(_, _)
MembersText(members, i) ==
  IF i > Len(KeyOrder) THEN <<>>
  ELSE IF members[KeyOrder[i]].t = "undefined" THEN MembersText(members, i + 1)
  ELSE <<Quote(KeyOrder[i]) \o ":" \o ValueText(members[KeyOrder[i]])>>
         \o MembersText(members, i + 1)

Stringify(doc) ==
  Let(doc, LAMBDA d :
    IF d.v.t = "object"
    THEN "{" \o Join(MembersText(d.f, 1), ",") \o "}"
    ELSE ValueText(d.v))

(***************************************************************************)
(* JSON.parse.  A recursive-descent reader of the JSON texts whose values  *)
(* are null, integers, strings without escapes, arrays of those, and       *)
(* objects of those.  A reader returns [ok, pos, x, f]: whether it read a  *)
(* value, the position after it (the position of the offending character   *)
(* when it did not), and the value read.                                   *)
(***************************************************************************)
Digits == <<"0", "1", "2", "3", "4", "5", "6", "7", "8", "9">>
IsDigit(c) == \E d \in 1..10 : Digits[d] = c
DigitVal(c) == (CHOOSE d \in 1..10 : Digits[d] = c) - 1

RECURSIVE SkipDigits(_, _)
SkipDigits(s, i) ==
  IF i <= Len(s) /\ IsDigit(CharAt(s, i)) THEN SkipDigits(s, i + 1) ELSE i

RECURSIVE NatOf(_, _)
\* the number the first n characters of the digits ds write
NatOf(ds, n) ==
  IF n = 0 THEN 0 ELSE 10 * NatOf(ds, n - 1) + DigitVal(CharAt(ds, n))

RECURSIVE FindQuote(_, _)
FindQuote(s, i) ==
  IF i > Len(s) \/ CharAt(s, i) = "\"" THEN i ELSE FindQuote(s, i + 1)

Read(pos, value) == [ok |-> TRUE, pos |-> pos, x |-> value, f |-> NoMembers]
Bad(pos) == [ok |-> FALSE, pos |-> pos, x |-> JUndef, f |-> NoMembers]

ReadString(s, i) ==
  Let(FindQuote(s, i + 1), LAMBDA j :
    IF j > Len(s) THEN Bad(j) ELSE Read(j + 1, JStr(SubSeq(s, i + 1, j - 1))))

ReadNumber(s, i) ==
  Let(IF CharAt(s, i) = "-" THEN i + 1 ELSE i, LAMBDA d :
    Let(SkipDigits(s, d), LAMBDA e :
      Let(NatOf(SubSeq(s, d, e - 1), e - d), LAMBDA n :
        IF e = d THEN Bad(d) ELSE Read(e, JNum(IF d > i THEN 0 - n ELSE n)))))

ReadAtom(s, i) ==
  IF i > Len(s) THEN Bad(i)
  ELSE IF CharAt(s, i) = "\"" THEN ReadString(s, i)
  ELSE IF CharAt(s, i) = "-" \/ IsDigit(CharAt(s, i)) THEN ReadNumber(s, i)
  ELSE IF SubSeq(s, i, Min(Len(s), i + 3)) = "null" THEN Read(i + 4, JNull)
  ELSE Bad(i)

RECURSIVE ReadElements(_, _, _)
\* the elements of an array after "[" or ",": i is at the next element
ReadElements(s, i, items) ==
  Let(ReadAtom(s, i), LAMBDA e :
    IF ~e.ok THEN e
    ELSE Let(SkipWs(s, e.pos), LAMBDA j :
           Let(Append(items, [t |-> e.x.t, n |-> e.x.n, s |-> e.x.s]), LAMBDA got :
             IF j > Len(s) THEN Bad(j)
             ELSE IF CharAt(s, j) = "]" THEN Read(j + 1, JArr(got))
             ELSE IF CharAt(s, j) = ","
             THEN Let(SkipWs(s, j + 1), LAMBDA nxt : ReadElements(s, nxt, got))
             ELSE Bad(j))))

ReadValue(s, i) ==
  IF i <= Len(s) /\ CharAt(s, i) = "["
  THEN Let(SkipWs(s, i + 1), LAMBDA j :
         IF j <= Len(s) /\ CharAt(s, j) = "]" THEN Read(j + 1, JArr(<<>>))
         ELSE ReadElements(s, j, <<>>))
  ELSE ReadAtom(s, i)

\* the member after its name k: ":", the value, then "," or "}"
RECURSIVE ReadMembers(_, _, _)
ReadMember(s, k, members) ==
  Let(SkipWs(s, k.pos), LAMBDA c :
    IF c > Len(s) \/ CharAt(s, c) # ":" THEN Bad(c)
    ELSE Let(SkipWs(s, c + 1), LAMBDA v :
      Let(ReadValue(s, v), LAMBDA x :
        IF ~x.ok THEN x
        ELSE Let(SkipWs(s, x.pos), LAMBDA j :
          Let(IF k.x.s \in Keys THEN [members EXCEPT ![k.x.s] = x.x] ELSE members,
              LAMBDA got :
            IF j > Len(s) THEN Bad(j)
            ELSE IF CharAt(s, j) = "}" THEN [Read(j + 1, JObject) EXCEPT !.f = got]
            ELSE IF CharAt(s, j) = ","
            THEN Let(SkipWs(s, j + 1), LAMBDA nxt : ReadMembers(s, nxt, got))
            ELSE Bad(j))))))

\* the members of an object after "{" or ",": i is at the next member name
ReadMembers(s, i, members) ==
  IF i > Len(s) \/ CharAt(s, i) # "\"" THEN Bad(i)
  ELSE Let(ReadString(s, i), LAMBDA k :
         IF ~k.ok THEN k ELSE ReadMember(s, k, members))

ReadDoc(s) ==
  Let(SkipWs(s, 1), LAMBDA i :
    Let(IF i <= Len(s) /\ CharAt(s, i) = "{"
        THEN Let(SkipWs(s, i + 1), LAMBDA j :
               IF j <= Len(s) /\ CharAt(s, j) = "}" THEN Read(j + 1, JObject)
               ELSE ReadMembers(s, j, NoMembers))
        ELSE ReadValue(s, i), LAMBDA r :
      IF r.ok /\ SkipWs(s, r.pos) <= Len(s) THEN Bad(SkipWs(s, r.pos)) ELSE r))

\* the message of the SyntaxError JSON.parse throws (V8): it quotes the
\* offending character and the start of the text
SnippetLen == 10
SyntaxErrorMessage(s, pos) ==
  IF pos > Len(s) THEN "Unexpected end of JSON input"
  ELSE "Unexpected token '" \o CharAt(s, pos) \o "', \""
         \o SubSeq(s, 1, Min(Len(s), SnippetLen))
         \o (IF Len(s) > SnippetLen THEN "\"..." ELSE "\"") \o " is not valid JSON"

\* JSON.parse(s): [ok, doc] or [~ok, message of the thrown SyntaxError]
JSONParse(s) ==
  Let(s, LAMBDA t :
    Let(ReadDoc(t), LAMBDA r :
      IF r.ok THEN [ok |-> TRUE, doc |-> Doc(r.x, r.f), message |-> ""]
      ELSE [ok |-> FALSE, doc |-> NoDoc, message |-> SyntaxErrorMessage(t, r.pos)]))

(***************************************************************************)
(* Error objects.  isObject: error && typeof error === 'object';           *)
(* isError: error instanceof Error; isZod: error instanceof z.ZodError;    *)
(* hasStatus, hasMessage: 'status' in error, 'message' in error.           *)
(***************************************************************************)
NewError(msg) ==
  [isObject |-> TRUE, isError |-> TRUE, isZod |-> FALSE, hasStatus |-> FALSE,
   status |-> 0, hasMessage |-> TRUE, message |-> msg]
ZodError(msg) == [NewError(msg) EXCEPT !.isZod = TRUE]
TypeError(msg) == NewError(msg)
NoError ==
  [isObject |-> FALSE, isError |-> FALSE, isZod |-> FALSE, hasStatus |-> FALSE,
   status |-> 0, hasMessage |-> FALSE, message |-> ""]

\* the outcome of a call: it returned a value or threw an error
Returned(value) == [status |-> "returned", value |-> value, error |-> NoError]
Threw(err) == [status |-> "threw", value |-> NoMembers, error |-> err]
NoOutcome == [status |-> "none", value |-> NoMembers, error |-> NoError]

(***************************************************************************)
(* The zod schemas.  z.object() strips the members the schema does not     *)
(* name; the message of a ZodError lists one issue per failing member.     *)
(***************************************************************************)
IsStringArray(x) == x.t = "array" /\ \A i \in 1..Len(x.a) : x.a[i].t = "string"

\* StringArrayIssues when the schema is z.array(z.string()).nullable()
StringArrayIssues_Nullable(k, x) ==
  IF x.t = "undefined" THEN <<k \o ": Required">>
  ELSE IF x.t = "null" THEN <<>>
  ELSE IF x.t # "array" THEN <<k \o ": Expected array, received " \o x.t>>
  ELSE IF ~IsStringArray(x)
  THEN <<k \o ": Expected string, received "
           \o x.a[CHOOSE i \in 1..Len(x.a) : x.a[i].t # "string"].t>>
  ELSE <<>>

\* z.array(z.string()) against member k
StringArrayIssues(k, x) ==
  IF x.t = "undefined" THEN <<k \o ": Required">>
  ELSE IF x.t # "array" THEN <<k \o ": Expected array, received " \o x.t>>
  ELSE IF ~IsStringArray(x)
  THEN <<k \o ": Expected string, received "
           \o x.a[CHOOSE i \in 1..Len(x.a) : x.a[i].t # "string"].t>>
  ELSE <<>>

\* z.string() against member k
StringIssues(k, x) ==
  IF x.t = "undefined" THEN <<k \o ": Required">>
  ELSE IF x.t # "string" THEN <<k \o ": Expected string, received " \o x.t>>
  ELSE <<>>

\* PercentageIssues when the schema is z.number(), without min and max
PercentageIssues_Unbounded(k, x) ==
  IF x.t = "undefined" THEN <<k \o ": Required">>
  ELSE IF x.t # "number" THEN <<k \o ": Expected number, received " \o x.t>>
  ELSE <<>>

\* z.number().min(0).max(100) against member k
PercentageIssues(k, x) ==
  IF x.t = "undefined" THEN <<k \o ": Required">>
  ELSE IF x.t # "number" THEN <<k \o ": Expected number, received " \o x.t>>
  ELSE IF x.n < 0 THEN <<k \o ": Number must be greater than or equal to 0">>
  ELSE IF x.n > 100 THEN <<k \o ": Number must be less than or equal to 100">>
  ELSE <<>>

ObjectIssues(doc) ==
  IF doc.v.t = "object" THEN <<>>
  ELSE <<"Expected object, received " \o doc.v.t>>

Strip(members, names) ==
  [k \in Keys |-> IF k \in names THEN members[k] ELSE JUndef]

SchemaResult(doc, names, issues) ==
  Let(issues, LAMBDA found :
    IF found = <<>> THEN Returned(Strip(doc.f, names))
    ELSE Threw(ZodError(Join(found, "; "))))

ResumeKeys == {"skills", "experience", "education", "contact"}

\* ParsedResumeSchema when the schema is z.object(...).strict()
ParsedResumeSchema_Strict(doc) ==
  SchemaResult(doc, ResumeKeys,
    IF doc.v.t # "object" THEN ObjectIssues(doc)
    ELSE StringArrayIssues("skills", doc.f["skills"])
           \o StringArrayIssues("experience", doc.f["experience"])
           \o StringArrayIssues("education", doc.f["education"])
           \o StringIssues("contact", doc.f["contact"])
           \o (IF \E k \in Keys \ ResumeKeys : doc.f[k].t # "undefined"
               THEN <<"Unrecognized key(s) in object">> ELSE <<>>))

ParsedResumeSchema(doc) ==
  SchemaResult(doc, ResumeKeys,
    IF doc.v.t # "object" THEN ObjectIssues(doc)
    ELSE StringArrayIssues("skills", doc.f["skills"])
           \o StringArrayIssues("experience", doc.f["experience"])
           \o StringArrayIssues("education", doc.f["education"])
           \o StringIssues("contact", doc.f["contact"]))

AnalysisKeys == {"matchPercentage", "matchedSkills", "missingSkills", "suggestions"}

AnalysisResultSchema(doc) ==
  SchemaResult(doc, AnalysisKeys,
    IF doc.v.t # "object" THEN ObjectIssues(doc)
    ELSE PercentageIssues("matchPercentage", doc.f["matchPercentage"])
           \o StringArrayIssues("matchedSkills", doc.f["matchedSkills"])
           \o StringArrayIssues("missingSkills", doc.f["missingSkills"])
           \o StringArrayIssues("suggestions", doc.f["suggestions"]))

(***************************************************************************)
(* formatResumeForAnalysis.  The argument is the object the caller passes; *)
(* x.length and x.join are JavaScript's: a string has a length and no      *)
(* join, a number has neither, undefined and null have no properties.      *)
(***************************************************************************)
\* the text Array.prototype.join gives an element
ElementText(atom) ==
  CASE atom.t = "string" -> atom.s
    [] atom.t = "number" -> ToString(atom.n)
    [] OTHER -> ""

JoinArray(x, sep) == Join([i \in 1..Len(x.a) |-> ElementText(x.a[i])], sep)

\* x.length > 0
LengthPositive(x) ==
  CASE x.t = "array" -> Len(x.a) > 0
    [] x.t = "string" -> Len(x.s) > 0
    [] OTHER -> FALSE

\* PushSection without the test of x.length
PushSection_Unguarded(acc, name, x, head, sep) ==
  IF acc.status = "threw" \/ x.t # "array" THEN acc
  ELSE [acc EXCEPT !.sections = Append(acc.sections, head \o JoinArray(x, sep))]

\* if (x.length > 0) sections.push(head + x.join(sep)), on sections so far
PushSection(acc, name, x, head, sep) ==
  IF acc.status = "threw" THEN acc
  ELSE IF x.t \in {"undefined", "null"}
  THEN [acc EXCEPT !.status = "threw", !.error =
          TypeError("Cannot read properties of " \o x.t \o " (reading 'length')")]
  ELSE IF ~LengthPositive(x) THEN acc
  ELSE IF x.t # "array"
  THEN [acc EXCEPT !.status = "threw", !.error =
          TypeError("parsedResume." \o name \o ".join is not a function")]
  ELSE [acc EXCEPT !.sections = Append(acc.sections, head \o JoinArray(x, sep))]

\* const sections: string[] = []
NoSections == [status |-> "returned", sections |-> <<>>, error |-> NoError]

\* formatSections when a fourth section carries the contact
formatSections_WithContact(parsedResume) ==
  Let(PushSection(NoSections, "skills", parsedResume["skills"], "Skills: ", ", "),
      LAMBDA s1 :
    Let(PushSection(s1, "experience", parsedResume["experience"],
                    "Experience:\n", "\n"), LAMBDA s2 :
      Let(PushSection(s2, "education", parsedResume["education"],
                      "Education:\n", "\n"), LAMBDA s3 :
        IF s3.status = "threw" \/ ~LengthPositive(parsedResume["contact"]) THEN s3
        ELSE [s3 EXCEPT !.sections =
                Append(s3.sections, "Contact: " \o parsedResume["contact"].s)])))

\* [status, sections, error]: the text is Join(sections, "\n\n")
formatSections(parsedResume) ==
  Let(PushSection(NoSections, "skills", parsedResume["skills"], "Skills: ", ", "),
      LAMBDA s1 :
    Let(PushSection(s1, "experience", parsedResume["experience"],
                    "Experience:\n", "\n"), LAMBDA s2 :
      PushSection(s2, "education", parsedResume["education"], "Education:\n", "\n")))

\* formatResumeForAnalysis when the sections are joined by one newline
formatResumeForAnalysis_OneNewline(parsedResume) ==
  Let(formatSections(parsedResume), LAMBDA r :
    [status |-> r.status, text |-> Join(r.sections, "\n"), error |-> r.error])

formatResumeForAnalysis(parsedResume) ==
  Let(formatSections(parsedResume), LAMBDA r :
    [status |-> r.status, text |-> Join(r.sections, "\n\n"), error |-> r.error])

(***************************************************************************)
(* The provider.  A request is what the SDK call submits; a reply is what  *)
(* the awaited call gives back: a completion with a content, or a thrown   *)
(* value.                                                                  *)
(***************************************************************************)
Providers == {"groq", "openai", "gemini"}

ModelName(variant) ==
  CASE variant = "groq" -> "llama-3.3-70b-versatile"
    [] variant = "openai" -> "gpt-4o-mini"
    [] variant = "gemini" -> "gemini-1.5-flash"

\* the opening sentences of the two system prompts
ParserSystemPrompt ==
  "You are an expert resume parser. Extract structured data from resume text and return ONLY valid JSON."
AnalystSystemPrompt ==
  "You are an expert resume analyst. Your task is to analyze a resume against a job description and return a structured JSON response."

ParserUserPrompt(resumeText) ==
  "Extract structured data from the following resume text:\n\n" \o resumeText
    \o "\n\nProvide the JSON response with skills, experience, education, and contact information."

AnalystUserPrompt(resumeText, jobDescription) ==
  "Resume Text:\n" \o resumeText \o "\n\nJob Description:\n" \o jobDescription
    \o "\n\nAnalyze the resume against the job description and provide the JSON response as specified."

\* the temperature is in tenths
Request(variant, temperature, system, user) ==
  [provider |-> variant, model |-> ModelName(variant),
   temperature |-> temperature, json |-> TRUE,
   prompt |-> IF variant = "gemini" THEN <<system \o "\n\n" \o user>>
              ELSE <<system, user>>]

Completion(content) == [kind |-> "completion", content |-> content, error |-> NoError]
Rejection(err) == [kind |-> "error", content |-> JUndef, error |-> err]

(***************************************************************************)
(* The messages of the errors the stages throw.                            *)
(***************************************************************************)
NotConfigured(variant) ==
  CASE variant = "groq" ->
         "GROQ_API_KEY is not configured. Get a free API key at https://console.groq.com/keys"
    [] variant = "openai" -> "OPENAI_API_KEY is not configured"
    [] variant = "gemini" ->
         "GEMINI_API_KEY is not configured. Get a free API key at https://makersuite.google.com/app/apikey"

NoContent(stage, variant) ==
  IF stage = "parseResumeFromText" THEN "No response content from resume parser"
  ELSE CASE variant = "groq" -> "No response content from Groq"
         [] variant = "openai" -> "No response content from OpenAI"
         [] variant = "gemini" -> "No response content from Gemini"

FailedToParse == "Failed to parse JSON response: "
InvalidResumeStructure == "Invalid resume structure from parser: "
InvalidResponseStructure == "Invalid response structure from AI: "

ParserRateLimit ==
  "Resume parser API rate limit exceeded. Please wait a moment and try again."
ParserAuthFailed ==
  "Resume parser API authentication failed. Please check that your GROQ_API_KEY is valid."
ParserUnknown == "Unknown error occurred during resume parsing"
AnalysisUnknown == "Unknown error occurred during AI analysis"

GroqRateLimit ==
  "Groq API rate limit exceeded. Free tier allows 14,400 requests per day. "
    \o "Please wait a moment and try again, or check your usage at https://console.groq.com"
GroqRateLimitGeneric ==
  "Groq API rate limit exceeded. Free tier allows 14,400 requests per day. "
    \o "Please wait a moment and try again."
GroqAuthFailed ==
  "Groq API authentication failed. Please check that your API key is valid. "
    \o "Get a free API key at https://console.groq.com/keys"

OpenAIQuota ==
  "OpenAI API quota exceeded. Please check your OpenAI account billing and usage limits. "
    \o "Visit https://platform.openai.com/account/billing to add credits or upgrade your plan."
OpenAIRateLimitStatus ==
  "OpenAI API rate limit exceeded. Please wait a moment and try again, or upgrade your plan for higher rate limits."
OpenAIRateLimit == "OpenAI API rate limit exceeded. Please wait a moment and try again."
OpenAIAuthFailed ==
  "OpenAI API authentication failed. Please check that your API key is valid and correctly configured in your .env.local file."

\* the model names the message of openai.ts 289-293 tells to try
SuggestedModels == <<"gemini-pro", "gemini-1.5-flash">>
ModelUnavailable(modelName, alternatives) ==
  "Gemini model \"" \o modelName \o "\" is not available for your account/region. "
    \o "Available models vary by region. Try changing the model name in lib/gemini.ts to: \""
    \o alternatives[1] \o "\" or \"" \o alternatives[2] \o "\". "
    \o "Check available models: https://ai.google.dev/models"
GeminiModelUnavailable == ModelUnavailable(ModelName("gemini"), SuggestedModels)
GeminiQuota ==
  "Gemini API quota exceeded. You have reached the free tier limit. "
    \o "Please wait a moment and try again, or upgrade at https://ai.google.dev/pricing"
GeminiAuthFailed ==
  "Gemini API authentication failed. Please check that your API key is valid. "
    \o "Get a free API key at https://makersuite.google.com/app/apikey"

(***************************************************************************)
(* The catch blocks: each maps the value the try block threw to the error  *)
(* the stage throws.                                                       *)
(***************************************************************************)
\* error.message || ''
MessageOf(err) == IF err.hasMessage THEN err.message ELSE ""

IncludesAny(text, words) == \E t \in {text} : \E w \in words : Includes(t, w)

\* the quota/rate-limit test of groq.ts and resumeParser.ts
GroqRateLimitText(m) ==
  \E t \in {m} :
    \/ Includes(t, "429")
    \/ IncludesAny(ToLowerCase(t), {"quota", "rate limit", "too many requests"})

\* the authentication test of groq.ts and resumeParser.ts
GroqAuthText(m) ==
  \E t \in {m} :
    \/ Includes(t, "401")
    \/ IncludesAny(ToLowerCase(t),
                   {"api key", "authentication", "unauthorized"})

parseResumeFromTextCatch(err) ==
  IF err.isZod THEN NewError(InvalidResumeStructure \o err.message)
  ELSE IF err.isObject /\ err.hasMessage /\ GroqRateLimitText(MessageOf(err))
  THEN NewError(ParserRateLimit)
  ELSE IF err.isObject /\ err.hasMessage /\ GroqAuthText(MessageOf(err))
  THEN NewError(ParserAuthFailed)
  ELSE IF err.isError THEN err
  ELSE NewError(ParserUnknown)

\* GroqCatch when the last branch wraps the error instead of rethrowing it
GroqCatch_Generic(err) ==
  IF err.isZod THEN NewError(InvalidResponseStructure \o err.message)
  ELSE IF err.isObject /\ err.hasMessage /\ GroqRateLimitText(MessageOf(err))
  THEN NewError(GroqRateLimit)
  ELSE IF err.isObject /\ err.hasMessage /\ GroqAuthText(MessageOf(err))
  THEN NewError(GroqAuthFailed)
  ELSE IF err.isError /\ GroqRateLimitText(MessageOf(err))
  THEN NewError(GroqRateLimitGeneric)
  ELSE IF err.isError THEN NewError(AnalysisUnknown)
  ELSE NewError(AnalysisUnknown)

GroqCatch(err) ==
  IF err.isZod THEN NewError(InvalidResponseStructure \o err.message)
  ELSE IF err.isObject /\ err.hasMessage /\ GroqRateLimitText(MessageOf(err))
  THEN NewError(GroqRateLimit)
  ELSE IF err.isObject /\ err.hasMessage /\ GroqAuthText(MessageOf(err))
  THEN NewError(GroqAuthFailed)
  ELSE IF err.isError /\ GroqRateLimitText(MessageOf(err))
  THEN NewError(GroqRateLimitGeneric)
  ELSE IF err.isError THEN err
  ELSE NewError(AnalysisUnknown)

\* `${apiError.status}`: a status that is present and undefined is 0 here
StatusText(err) == IF err.status = 0 THEN "undefined" ELSE ToString(err.status)

OpenAICatch(err) ==
  IF err.isZod THEN NewError(InvalidResponseStructure \o err.message)
  ELSE Let(MessageOf(err), LAMBDA m :
    Let(ToLowerCase(m), LAMBDA lower :
      IF err.isObject /\ err.hasStatus
      THEN IF err.status = 429
           THEN IF IncludesAny(lower, {"quota", "billing", "exceeded"})
                THEN NewError(OpenAIQuota)
                ELSE NewError(OpenAIRateLimitStatus)
           ELSE IF err.status = 401 THEN NewError(OpenAIAuthFailed)
           ELSE NewError("OpenAI API error (" \o StatusText(err) \o "): "
                           \o (IF m = "" THEN "Unknown error" ELSE m))
      ELSE IF err.isError
      THEN IF \/ Includes(m, "429")
              \/ IncludesAny(lower, {"quota", "billing", "exceeded your current quota"})
           THEN NewError(OpenAIQuota)
           ELSE IF Includes(lower, "rate limit") THEN NewError(OpenAIRateLimit)
           ELSE err
      ELSE NewError(AnalysisUnknown)))

GeminiNotFoundText(m) ==
  \E t \in {m} :
    \/ Includes(t, "404")
    \/ IncludesAny(ToLowerCase(t),
                   {"not found", "is not found for api version", "is not found"})

GeminiQuotaText(m) ==
  \E t \in {m} :
    \/ Includes(t, "429")
    \/ IncludesAny(ToLowerCase(t),
                   {"quota", "resource exhausted", "rate limit"})

GeminiAuthText(m) ==
  \E t \in {m} :
    \/ Includes(t, "401")
    \/ IncludesAny(ToLowerCase(t), {"api key", "authentication"})

\* GeminiCatch when the quota test comes before the not-found test
GeminiCatch_QuotaFirst(err) ==
  IF err.isZod THEN NewError(InvalidResponseStructure \o err.message)
  ELSE IF err.isObject /\ err.hasMessage /\ GeminiQuotaText(MessageOf(err))
  THEN NewError(GeminiQuota)
  ELSE IF err.isObject /\ err.hasMessage /\ GeminiNotFoundText(MessageOf(err))
  THEN NewError(GeminiModelUnavailable)
  ELSE IF err.isObject /\ err.hasMessage /\ GeminiAuthText(MessageOf(err))
  THEN NewError(GeminiAuthFailed)
  ELSE IF err.isError /\ GeminiQuotaText(MessageOf(err))
  THEN NewError(GeminiQuota)
  ELSE IF err.isError THEN err
  ELSE NewError(AnalysisUnknown)

\* openai.ts 272-342: the catch block of the Gemini variant
GeminiCatch(err) ==
  IF err.isZod THEN NewError(InvalidResponseStructure \o err.message)
  ELSE IF err.isObject /\ err.hasMessage /\ GeminiNotFoundText(MessageOf(err))
  THEN NewError(GeminiModelUnavailable)
  ELSE IF err.isObject /\ err.hasMessage /\ GeminiQuotaText(MessageOf(err))
  THEN NewError(GeminiQuota)
  ELSE IF err.isObject /\ err.hasMessage /\ GeminiAuthText(MessageOf(err))
  THEN NewError(GeminiAuthFailed)
  ELSE IF err.isError /\ GeminiQuotaText(MessageOf(err))
  THEN NewError(GeminiQuota)
  ELSE IF err.isError THEN err
  ELSE NewError(AnalysisUnknown)

analyzeResumeCatch(variant, err) ==
  CASE variant = "groq" -> GroqCatch(err)
    [] variant = "openai" -> OpenAICatch(err)
    [] variant = "gemini" -> GeminiCatch(err)

(***************************************************************************)
(* The try blocks, from the reply of the provider on.                      *)
(***************************************************************************)
\* The code fence is three backquotes; a TLA+ string cannot hold a
\* backquote, so the apostrophe stands for it in every text of the model.
Fence == "'''"

\* s.replace(/^<pre>\n?/, '')
DropPrefix(s, pre) ==
  Let(s, LAMBDA t :
    IF ~StartsWith(t, pre) THEN t
    ELSE IF StartsWith(t, pre \o "\n") THEN SubSeq(t, Len(pre) + 2, Len(t))
    ELSE SubSeq(t, Len(pre) + 1, Len(t)))

\* s.replace(/\n?<suf>$/, '')
DropSuffix(s, suf) ==
  Let(s, LAMBDA t :
    IF ~EndsWith(t, suf) THEN t
    ELSE IF EndsWith(t, "\n" \o suf) THEN SubSeq(t, 1, Len(t) - Len(suf) - 1)
    ELSE SubSeq(t, 1, Len(t) - Len(suf)))

\* openai.ts 254-261: the text the Gemini variant decodes
GeminiJsonContent(content) ==
  Let(Trim(content), LAMBDA jsonContent :
    IF StartsWith(jsonContent, Fence \o "json")
    THEN DropSuffix(DropPrefix(jsonContent, Fence \o "json"), Fence)
    ELSE IF StartsWith(jsonContent, Fence)
    THEN DropSuffix(DropPrefix(jsonContent, Fence), Fence)
    ELSE jsonContent)

\* x || dflt
OrElse(x, dflt) == IF Truthy(x) THEN x ELSE dflt

\* ResumeWithDefaults when the contact is returned as validated
ResumeWithDefaults_ContactAsIs(validated) ==
  [k \in Keys |->
     CASE k \in {"skills", "experience", "education"} -> OrElse(validated[k], JArr(<<>>))
       [] k = "contact" -> validated[k]
       [] OTHER -> JUndef]

\* resumeParser.ts 106-111: the object literal the stage returns
ResumeWithDefaults(validated) ==
  [k \in Keys |->
     CASE k \in {"skills", "experience", "education"} -> OrElse(validated[k], JArr(<<>>))
       [] k = "contact" -> OrElse(validated[k], JStr("Not provided"))
       [] OTHER -> JUndef]

\* resumeParser.ts 88-111
parseResumeFromTextTry(reply) ==
  IF reply.kind = "error" THEN Threw(reply.error)
  ELSE IF ~Truthy(reply.content)
  THEN Threw(NewError(NoContent("parseResumeFromText", "groq")))
  ELSE Let(JSONParse(reply.content.s), LAMBDA parsed :
         IF ~parsed.ok THEN Threw(NewError(FailedToParse \o parsed.message))
         ELSE Let(ParsedResumeSchema(parsed.doc), LAMBDA validated :
                IF validated.status = "threw" THEN validated
                ELSE Returned(ResumeWithDefaults(validated.value))))

\* groq.ts 75-92, openai.ts 75-92 and 243-271
analyzeResumeTry(variant, reply) ==
  IF reply.kind = "error" THEN Threw(reply.error)
  ELSE IF ~Truthy(reply.content)
  THEN Threw(NewError(NoContent("analyzeResume", variant)))
  ELSE Let(JSONParse(IF variant = "gemini" THEN GeminiJsonContent(reply.content.s)
                     ELSE reply.content.s), LAMBDA parsed :
         IF ~parsed.ok THEN Threw(NewError(FailedToParse \o parsed.message))
         ELSE AnalysisResultSchema(parsed.doc))

\* StageOutcome when a stage that failed returns an empty record
StageOutcome_Defaulting(stage, variant, reply) ==
  Let(IF stage = "parseResumeFromText" THEN parseResumeFromTextTry(reply)
      ELSE analyzeResumeTry(variant, reply), LAMBDA tried :
    IF tried.status = "returned" THEN tried
    ELSE IF stage = "parseResumeFromText"
    THEN Returned(ResumeWithDefaults(NoMembers))
    ELSE Threw(analyzeResumeCatch(variant, tried.error)))

\* the outcome of a stage once the provider has replied
StageOutcome(stage, variant, reply) ==
  Let(IF stage = "parseResumeFromText" THEN parseResumeFromTextTry(reply)
      ELSE analyzeResumeTry(variant, reply), LAMBDA tried :
    IF tried.status = "returned" THEN tried
    ELSE Let(tried.error, LAMBDA err :
           IF stage = "parseResumeFromText" THEN Threw(parseResumeFromTextCatch(err))
           ELSE Threw(analyzeResumeCatch(variant, err))))

(***************************************************************************)
(* extractTextFromPDF.  A buffer is the bytes of the file, as a string, or *)
(* undefined; what the awaited pdfParse gives back is a value (data, with  *)
(* its member text when it is an object) or a thrown value.                *)
(***************************************************************************)
NoBuffer == [t |-> "undefined", bytes |-> ""]
Buffer(bytes) == [t |-> "object", bytes |-> bytes]

PdfResolved(data, text) == [kind |-> "resolved", data |-> data, text |-> text,
                            error |-> NoError]
PdfRejected(err) == [kind |-> "rejected", data |-> JUndef, text |-> JUndef,
                     error |-> err]
NoPdfData == [kind |-> "none", data |-> JUndef, text |-> JUndef, error |-> NoError]

EmptyBuffer == "Invalid PDF file: File buffer is empty or undefined"
NotAPdf == "Invalid PDF file: File does not appear to be a valid PDF"
InvalidDataStructure == "PDF parsing returned invalid data structure"
NoTextInPdf ==
  "Could not extract text from PDF. The PDF may be image-based (scanned) or contain no readable text. Please ensure the PDF contains selectable text."
UnsupportedPdf ==
  "PDF parsing failed: The PDF format may not be fully supported. This can happen with scanned PDFs, PDFs with complex layouts, or corrupted files. Please try a different PDF file or ensure the PDF contains selectable text (not just images)."
InvalidPdfFormat ==
  "Invalid PDF file format. Please ensure the file is a valid PDF document."
PasswordProtected ==
  "This PDF is password-protected. Please remove the password and try again."
FailedToParsePdf == "Failed to parse PDF: "
PdfUnknown ==
  "Failed to parse PDF: Unknown error occurred. Please try a different PDF file."

\* the result of extractTextFromPDF: the text it returned or the error it threw
Extracted(text) == [status |-> "returned", text |-> text, error |-> NoError]
ExtractionFailed(err) == [status |-> "threw", text |-> "", error |-> err]
NoExtraction == [status |-> "none", text |-> "", error |-> NoError]

\* pdfParser.ts 41-72: the catch block
extractTextFromPDFCatch(err) ==
  IF err.isError
  THEN Let(MessageOf(err), LAMBDA errorMessage :
         IF IncludesAny(errorMessage, {"Cannot read properties of undefined",
                                       "reading '0'", "Cannot read property"})
         THEN NewError(UnsupportedPdf)
         ELSE IF IncludesAny(errorMessage, {"Invalid PDF", "invalid PDF"})
         THEN NewError(InvalidPdfFormat)
         ELSE IF IncludesAny(errorMessage, {"Password required", "password"})
         THEN NewError(PasswordProtected)
         ELSE NewError(FailedToParsePdf \o errorMessage))
  ELSE NewError(PdfUnknown)

\* pdfParser.ts 23-40: the try block from the value pdfParse gave back on;
\* an outcome [status, text, error] of the block
extractTextFromPDFTry(parsed) ==
  IF parsed.kind = "rejected" THEN ExtractionFailed(parsed.error)
  ELSE IF ~Truthy(parsed.data) \/ parsed.data.t # "object"
  THEN ExtractionFailed(NewError(InvalidDataStructure))
  ELSE Let(IF parsed.text.t = "string" THEN parsed.text.s ELSE "", LAMBDA text :
         IF text = "" \/ Len(Trim(text)) = 0
         THEN ExtractionFailed(NewError(NoTextInPdf))
         ELSE Extracted(Trim(text)))

\* extractTextFromPDF when the text is returned as pdfParse gave it
extractTextFromPDF_Untrimmed(fileBuffer, parsed) ==
  IF fileBuffer.t = "undefined" \/ Len(fileBuffer.bytes) = 0
  THEN ExtractionFailed(NewError(EmptyBuffer))
  ELSE IF SubSeq(fileBuffer.bytes, 1, Min(4, Len(fileBuffer.bytes))) # "%PDF"
  THEN ExtractionFailed(NewError(NotAPdf))
  ELSE IF parsed.kind = "resolved" /\ parsed.data.t = "object"
          /\ parsed.text.t = "string"
  THEN Extracted(parsed.text.s)
  ELSE Let(extractTextFromPDFTry(parsed), LAMBDA result :
         IF result.status = "threw"
         THEN ExtractionFailed(extractTextFromPDFCatch(result.error))
         ELSE result)

\* pdfParser.ts 9-73: extractTextFromPDF(fileBuffer), pdfParse answering
\* with parsed
extractTextFromPDF(fileBuffer, parsed) ==
  IF fileBuffer.t = "undefined" \/ Len(fileBuffer.bytes) = 0
  THEN ExtractionFailed(NewError(EmptyBuffer))
  ELSE IF SubSeq(fileBuffer.bytes, 1, Min(4, Len(fileBuffer.bytes))) # "%PDF"
  THEN ExtractionFailed(NewError(NotAPdf))
  ELSE Let(extractTextFromPDFTry(parsed), LAMBDA result :
         IF result.status = "threw"
         THEN ExtractionFailed(extractTextFromPDFCatch(result.error))
         ELSE result)

(***************************************************************************)
(* The inputs drawn: process environments, arguments of the stages,        *)
(* bodies posted to /api/analyze, replies of the provider.                 *)
(***************************************************************************)
\* the sequences over items of length at most MaxItems
StringLists(items) == UNION {[1..n -> items] : n \in 0..MaxItems}

Members(skills, experience, education, contact, name) ==
  [NoMembers EXCEPT !["skills"] = skills, !["experience"] = experience,
                    !["education"] = education, !["contact"] = contact,
                    !["name"] = name]

Analysis(percentage, matched, missing, suggestions, name) ==
  [NoMembers EXCEPT !["matchPercentage"] = percentage,
                    !["matchedSkills"] = matched, !["missingSkills"] = missing,
                    !["suggestions"] = suggestions, !["name"] = name]

\* the value of an environment variable: unset, empty, set
EnvValues == {JUndef, JStr(""), JStr("sk-live-1")}
Environments ==
  {[p \in Providers |-> x] : x \in EnvValues}
    \cup {[p \in Providers |-> IF p = q THEN JStr("sk-live-1") ELSE JUndef] :
            q \in Providers}

ResumeTexts == {"", " \n", "Jane Doe. Python developer at Acme."}
FormattedTexts == {"", "Skills: Python"}
JobDescriptions == {"", " \n", "Looking for Python and Kubernetes expert"}

SkillLists == {StrArr(l) : l \in StringLists({"Python", "AWS"})}
ExperienceLists == {StrArr(l) : l \in StringLists({"Engineer at Acme (2020-2023)"})}
EducationLists == {StrArr(l) : l \in StringLists({"BS in Computer Science"})}
ShortExperienceLists == {StrArr(<<>>), StrArr(<<"Engineer at Acme (2020-2023)">>)}
ShortEducationLists == {StrArr(<<>>), StrArr(<<"BS in Computer Science">>)}

\* the StructuredResume records: the type ParsedResume
StructuredResumes ==
  {Members(sk, ex, ed, JStr(co), JUndef) :
     sk \in SkillLists, ex \in ExperienceLists, ed \in EducationLists,
     co \in {"", "jane@x.io", "Not provided"}}

\* bodies of POST /api/analyze: body.parsedResume, body.jobDescription
PostedResumes ==
  {NoDoc, Doc(JNull, NoMembers)}
    \cup {Doc(JObject, Members(sk, ex, ed, co, JUndef)) :
            sk \in SkillLists \cup {JUndef, JStr("Python")},
            ex \in ShortExperienceLists \cup {JUndef},
            ed \in ShortEducationLists \cup {JUndef},
            co \in {JUndef, JStr(""), JStr("jane@x.io")}}
PostedJobDescriptions == {JUndef, JNum(7)} \cup {JStr(j) : j \in JobDescriptions}
Bodies ==
  {[parsedResume |-> r, jobDescription |-> j] :
     r \in PostedResumes, j \in PostedJobDescriptions}
NoBody == [parsedResume |-> NoDoc, jobDescription |-> JUndef]

\* the objects the provider answers the extraction prompt with
ResumeDocs ==
  {Doc(JObject, Members(sk, ex, ed, co, nm)) :
     sk \in SkillLists \cup {JUndef, JNull, JStr("Python"), JArr(<<ANum(7)>>),
                             JArr(<<AStr("Python"), ANull>>)},
     ex \in ShortExperienceLists \cup {JUndef, JNull},
     ed \in ShortEducationLists \cup {JUndef, JStr("BS in Computer Science")},
     co \in {JUndef, JNull, JNum(5), JStr(""), JStr("jane@x.io")},
     nm \in {JUndef, JStr("Jane Doe")}}

\* the objects the provider answers the analysis prompt with
Percentages ==
  {JUndef, JNull, JStr("85"), JNum(0 - 1), JNum(0), JNum(85), JNum(100), JNum(101)}
AnalysisDocs ==
  {Doc(JObject, Analysis(pct, ma, mi, su, nm)) :
     pct \in Percentages,
     ma \in {StrArr(<<>>), StrArr(<<"Python">>), JUndef, JStr("Python")},
     mi \in {StrArr(<<"Kubernetes">>), JNull},
     su \in {StrArr(<<"Add Kubernetes projects">>), JArr(<<ANum(1)>>)},
     nm \in {JUndef, JStr("Jane Doe")}}

\* JSON texts that are not objects
OtherDocs == {Doc(JNull, NoMembers), Doc(JArr(<<>>), NoMembers),
              Doc(JNum(85), NoMembers), Doc(JStr("Python"), NoMembers)}

\* a JSON text as providers wrap it
Wrappings(text) ==
  {text, " " \o text \o "\n",
   Fence \o "json\n" \o text \o "\n" \o Fence,
   Fence \o "\n" \o text \o "\n" \o Fence,
   Fence \o "js\n" \o text \o "\n" \o Fence,
   "Here is the JSON you asked for: " \o text}

GoodResume ==
  Doc(JObject, Members(StrArr(<<"Python">>), StrArr(<<>>), StrArr(<<>>),
                       JStr("jane@x.io"), JUndef))
GoodAnalysis ==
  Doc(JObject, Analysis(JNum(85), StrArr(<<"Python">>), StrArr(<<"Kubernetes">>),
                        StrArr(<<"Add Kubernetes projects">>), JUndef))

\* the contents of completions
Contents(docs) ==
  {JUndef, JNull, JStr(""), JStr("I cannot help with that. Error 429."),
   JStr("quota exceeded")}
    \cup {JStr(Stringify(d)) : d \in docs \cup OtherDocs \cup {GoodResume, GoodAnalysis}}
    \cup {JStr(w) : w \in Wrappings(Stringify(GoodResume))
                            \cup Wrappings(Stringify(GoodAnalysis))}

\* an error of the SDK's APIError class
APIError(status, msg) ==
  [isObject |-> TRUE, isError |-> TRUE, isZod |-> FALSE, hasStatus |-> TRUE,
   status |-> status, hasMessage |-> TRUE, message |-> msg]

\* the values the provider call throws
ProviderErrors ==
  {APIError(401, "Incorrect API key provided"),
   APIError(401, "Invalid credentials"),
   APIError(401, "401 Unauthorized"),
   APIError(429, "Rate limit reached for requests"),
   APIError(429, "Please slow down"),
   APIError(429, "You exceeded your current quota, please check your plan and billing details"),
   APIError(404, "The model does not exist"),
   APIError(404, "models/gemini-1.5-flash is not found for API version v1beta"),
   APIError(500, "Internal server error"),
   APIError(0, "Connection error."),
   NewError("fetch failed"),
   NewError("[GoogleGenerativeAI Error]: [429 Too Many Requests] Resource exhausted"),
   NewError("API key not valid. Please pass a valid API key."),
   NewError("Rate limit exceeded for this API key"),
   NewError("[404 Not Found] model is not found; quota and API key were not checked"),
   [NoError EXCEPT !.isObject = TRUE, !.hasMessage = TRUE, !.message = "quota exceeded"],
   [NoError EXCEPT !.isObject = TRUE, !.hasStatus = TRUE, !.status = 503],
   NoError}

ParserReplies ==
  {Rejection(e) : e \in ProviderErrors} \cup {Completion(c) : c \in Contents(ResumeDocs)}
AnalystReplies ==
  {Rejection(e) : e \in ProviderErrors} \cup {Completion(c) : c \in Contents(AnalysisDocs)}

\* the uploads: formData.get('resumeFile'), with the type and the size the
\* browser reports and the first bytes of the content
NoFile == [present |-> FALSE, type |-> "", size |-> 0, bytes |-> ""]
File(type, size, bytes) ==
  [present |-> TRUE, type |-> type, size |-> size, bytes |-> bytes]
Files ==
  {NoFile,
   File("text/plain", 12, "Jane Doe"),
   File("application/pdf", 0, ""),
   File("application/pdf", 2048, "<html>"),
   File("application/pdf", 2048, "%PDF-1.4"),
   File("application/pdf", 10485760, "%PDF-1.7"),
   File("application/pdf", 10485761, "%PDF-1.4"),
   File("text/plain", 10485761, "%PDF-1.4")}

\* the arguments of extractTextFromPDF called on its own
Buffers ==
  {NoBuffer, Buffer(""), Buffer("%PD"), Buffer("<html>"), Buffer("%PDF-1.4")}

\* what pdfParse gives back
PdfResults ==
  {PdfResolved(JObject, JStr("Jane Doe. Python developer at Acme.")),
   PdfResolved(JObject, JStr(" \nJane Doe\n ")),
   PdfResolved(JObject, JStr("")),
   PdfResolved(JObject, JStr(" \n ")),
   PdfResolved(JObject, JUndef),
   PdfResolved(JObject, JNum(3)),
   PdfResolved(JUndef, JUndef),
   PdfResolved(JNull, JUndef),
   PdfResolved(JStr("Jane Doe"), JUndef),
   PdfRejected(TypeError("Cannot read properties of undefined (reading '0')")),
   PdfRejected(NewError("Invalid PDF structure")),
   PdfRejected(NewError("No password given")),
   PdfRejected(NewError("bad XRef entry")),
   PdfRejected(NoError)}

(***************************************************************************)
(* The state.  One invocation at a time: an entry point is called (op),    *)
(* runs to its await of the provider (pc = "submitted") or to its end      *)
(* (pc = "done"), and the reply of the provider resumes it.                *)
(***************************************************************************)
VARIABLES
  env,            \* process.env: the credential of each provider
  pc,             \* "idle", "submitted", "done"
  op,             \* the entry point called: a stage, the formatter, the route
  stage,          \* the stage function entered, "none" before
  variant,        \* the backend module of the stage
  resumeText,     \* the stage's first argument
  jobDescription, \* analyzeResume's second argument
  body,           \* the body posted to the route
  formatted,      \* what formatResumeForAnalysis gave: [status, text, error]
  requests,       \* the requests submitted to the provider in this invocation
  reply,          \* what the provider answered the request with
  outcome,        \* the outcome of the stage
  response,       \* the HTTP response of the route: [status, error, json]
  resumeFile,     \* the file posted to /api/parse-resume
  fileBuffer,     \* the argument of extractTextFromPDF
  pdfData,        \* what pdfParse gave back, when it was called
  extracted,      \* what extractTextFromPDF gave: [status, text, error]
  ui,             \* the state of the ResumeAnalyzer component
  calls           \* the invocations of the stages that run concurrently

pdfVars == <<resumeFile, fileBuffer, pdfData, extracted>>
stageVars == <<env, pc, op, stage, variant, resumeText, jobDescription, body,
               formatted, requests, reply, outcome, response>>
vars == <<stageVars, pdfVars, ui, calls>>

NoReply == [kind |-> "none", content |-> JUndef, error |-> NoError]
NoFormat == [status |-> "none", text |-> "", error |-> NoError]
NoResponse == [status |-> 0, error |-> "", json |-> NoMembers]
ErrorResponse(status, msg) == [status |-> status, error |-> msg, json |-> NoMembers]
JsonResponse(value) == [status |-> 200, error |-> "", json |-> value]

\* ResumeAnalyzer.tsx 10-14: the state of the component at its first
\* render, and no handleSubmit in progress (awaiting: the fetch it awaits;
\* sent: the resumeFile and jobDescription of the render it was called in)
\* (parsedResume: the local variable of handleSubmit; fetches: the URLs
\* it has fetched)
Nothing == [resumeFile |-> NoFile, jobDescription |-> ""]
Null == Doc(JNull, NoMembers)
InitialUI ==
  [resumeFile |-> NoFile, jobDescription |-> "", analysis |-> Null,
   loading |-> FALSE, error |-> JNull, awaiting |-> "none", sent |-> Nothing,
   parsedResume |-> NoDoc, fetches |-> <<>>]

\* the invocations that run concurrently, none of them called yet
Invocations == 1..MaxInvocations
NoCall ==
  [pc |-> "idle", stage |-> "none", variant |-> "groq", resumeText |-> "",
   jobDescription |-> "", apiKey |-> JUndef, requests |-> <<>>,
   reply |-> NoReply, outcome |-> NoOutcome]
NoCalls == [i \in Invocations |-> NoCall]

Init ==
  /\ env \in Environments
  /\ pc = "idle"
  /\ op = "none"
  /\ stage = "none"
  /\ variant = "groq"
  /\ resumeText = ""
  /\ jobDescription = ""
  /\ body = NoBody
  /\ formatted = NoFormat
  /\ requests = <<>>
  /\ reply = NoReply
  /\ outcome = NoOutcome
  /\ response = NoResponse
  /\ resumeFile = NoFile
  /\ fileBuffer = NoBuffer
  /\ pdfData = NoPdfData
  /\ extracted = NoExtraction
  /\ ui = InitialUI
  /\ calls = NoCalls

\* the request a stage submits
StageRequest(stg, var, text, jd) ==
  IF stg = "parseResumeFromText"
  THEN Request(var, 2, ParserSystemPrompt, ParserUserPrompt(text))
  ELSE Request(var, 3, AnalystSystemPrompt, AnalystUserPrompt(text, jd))

\* HasApiKey when the test of the credential is left out
HasApiKey_Unchecked(apiKey) == TRUE

\* if (!apiKey) throw ...: whether the stage goes on with this credential
HasApiKey(apiKey) == Truthy(apiKey)

\* resumeParser.ts 41-86, groq.ts 28-73, openai.ts 28-73 and 190-241:
\* a stage from its entry to its await; the arguments are recorded
EnterStage(stg, var, text, jd) ==
  /\ stage' = stg
  /\ variant' = var
  /\ resumeText' = text
  /\ jobDescription' = jd
  /\ IF ~HasApiKey(env[var])
     THEN /\ outcome' = Threw(NewError(NotConfigured(var)))
          /\ requests' = requests
          /\ pc' = "done"
     ELSE /\ outcome' = NoOutcome
          /\ requests' = Append(requests, StageRequest(stg, var, text, jd))
          /\ pc' = "submitted"

\* parseResumeFromText(text), called on its own
CallParseResumeFromText(text) ==
  /\ pc = "idle"
  /\ op' = "parseResumeFromText"
  /\ EnterStage("parseResumeFromText", "groq", text, "")
  /\ UNCHANGED <<env, body, formatted, reply, response, pdfVars, ui, calls>>

\* analyzeResume(text, jd) of one of the three backend modules, called on
\* its own
CallAnalyzeResume(var, text, jd) ==
  /\ pc = "idle"
  /\ op' = "analyzeResume"
  /\ EnterStage("analyzeResume", var, text, jd)
  /\ UNCHANGED <<env, body, formatted, reply, response, pdfVars, ui, calls>>

\* formatResumeForAnalysis(r) on a StructuredResume, called on its own
CallFormatResumeForAnalysis(r) ==
  /\ pc = "idle"
  /\ op' = "formatResumeForAnalysis"
  /\ body' = [parsedResume |-> Doc(JObject, r), jobDescription |-> JUndef]
  /\ formatted' = formatResumeForAnalysis(r)
  /\ pc' = "done"
  /\ UNCHANGED <<env, stage, variant, resumeText, jobDescription, requests,
                 reply, outcome, response, pdfVars, ui, calls>>

\* route.ts 59-69: the catch block of the route
RouteCatch(err) ==
  ErrorResponse(500, IF err.isError THEN err.message ELSE "An unknown error occurred")

\* the route answers without entering the stage
Answer(r, f) ==
  /\ response' = r
  /\ formatted' = f
  /\ pc' = "done"
  /\ UNCHANGED <<stage, variant, resumeText, jobDescription, requests, reply,
                 outcome>>

\* ValidateBody when the job description is tested by !jobDescription alone
ValidateBody_NoTrim(b) ==
  LET parsedResume == b.parsedResume
      jd == b.jobDescription
  IN IF ~Truthy(parsedResume.v)
     THEN ErrorResponse(400,
            "Parsed resume data is required. Please parse the resume first.")
     ELSE IF ~Truthy(jd) THEN ErrorResponse(400, "Job description is required")
     ELSE IF jd.t # "string"
     THEN RouteCatch(TypeError("jobDescription.trim is not a function"))
     ELSE IF \E k \in ResumeKeys : ~Truthy(parsedResume.f[k])
     THEN ErrorResponse(400, "Invalid parsed resume structure")
     ELSE NoResponse

\* route.ts 20-49: the checks of the body; the response they end the
\* request with, NoResponse when the body passes them
ValidateBody(b) ==
  LET parsedResume == b.parsedResume
      jd == b.jobDescription
  IN IF ~Truthy(parsedResume.v)
     THEN ErrorResponse(400,
            "Parsed resume data is required. Please parse the resume first.")
     ELSE IF ~Truthy(jd) THEN ErrorResponse(400, "Job description is required")
     ELSE IF jd.t # "string"
     THEN RouteCatch(TypeError("jobDescription.trim is not a function"))
     ELSE IF Len(Trim(jd.s)) = 0
     THEN ErrorResponse(400, "Job description is required")
     ELSE IF \E k \in ResumeKeys : ~Truthy(parsedResume.f[k])
     THEN ErrorResponse(400, "Invalid parsed resume structure")
     ELSE NoResponse

\* route.ts 17-58: POST /api/analyze from the request to the await of
\* analyzeResume, or to the response when it does not get there
PostAnalyze(b) ==
  /\ pc = "idle"
  /\ op' = "POST /api/analyze"
  /\ body' = b
  /\ UNCHANGED <<env, reply, pdfVars, ui, calls>>
  /\ \E invalid \in {ValidateBody(b)},
        fmt \in {formatResumeForAnalysis(b.parsedResume.f)} :
       IF invalid # NoResponse THEN Answer(invalid, NoFormat)
       ELSE IF fmt.status = "threw" THEN Answer(RouteCatch(fmt.error), fmt)
       ELSE /\ formatted' = fmt
            /\ \E text \in {fmt.text}, jd \in {b.jobDescription.s} :
                 EnterStage("analyzeResume", "groq", text, jd)
            /\ response' = IF outcome'.status = "threw"
                           THEN RouteCatch(outcome'.error)
                           ELSE NoResponse

\* extractTextFromPDF(fileBuffer), called on its own; pdfParse is awaited
\* only when the buffer passed the two checks before the try block
PdfParseCalled(buffer) ==
  buffer.t # "undefined" /\ StartsWith(buffer.bytes, "%PDF")

CallExtractTextFromPDF(buffer, parsed) ==
  /\ pc = "idle"
  /\ op' = "extractTextFromPDF"
  /\ fileBuffer' = buffer
  /\ pdfData' = IF PdfParseCalled(buffer) THEN parsed ELSE NoPdfData
  /\ extracted' = extractTextFromPDF(buffer, parsed)
  /\ pc' = "done"
  /\ UNCHANGED <<env, stage, variant, resumeText, jobDescription, body,
                 formatted, requests, reply, outcome, response, resumeFile,
                 ui, calls>>

\* parse-resume/route.ts 42
maxSize == 10 * 1024 * 1024

NoMeaningfulData ==
  "Could not extract meaningful data from resume. Please ensure the resume contains skills, experience, or education information."

\* ValidateFile when the type of the upload is not looked at
ValidateFile_AnyType(file) ==
  IF ~file.present THEN ErrorResponse(400, "Resume file is required")
  ELSE IF file.size > maxSize
  THEN ErrorResponse(400,
         "File size exceeds 10MB limit. Please upload a smaller file.")
  ELSE NoResponse

\* parse-resume/route.ts 26-48: the checks of the upload; the response they
\* end the request with, NoResponse when the upload passes them
ValidateFile(file) ==
  IF ~file.present THEN ErrorResponse(400, "Resume file is required")
  ELSE IF file.type # "application/pdf"
  THEN ErrorResponse(400, "Only PDF files are supported")
  ELSE IF file.size > maxSize
  THEN ErrorResponse(400,
         "File size exceeds 10MB limit. Please upload a smaller file.")
  ELSE NoResponse

\* parse-resume/route.ts 58-69: the catch block around extractTextFromPDF
ExtractionCatch(pdfError) ==
  ErrorResponse(400,
    IF pdfError.isError THEN pdfError.message
    ELSE "Failed to extract text from PDF. The PDF may be corrupted or image-based.")

\* ParseResumeAnswer when a failure of the stage is answered as the failure
\* of the extraction is
ParseResumeAnswer_BadRequest(result) ==
  IF result.status = "threw"
  THEN ErrorResponse(400,
         IF result.error.isError THEN result.error.message
         ELSE "Failed to parse resume data. Please try again.")
  ELSE IF \A k \in {"skills", "experience", "education"} :
            Len(result.value[k].a) = 0
  THEN ErrorResponse(400, NoMeaningfulData)
  ELSE JsonResponse(result.value)

\* parse-resume/route.ts 83-115: the response of the route once
\* parseResumeFromText has ended
ParseResumeAnswer(result) ==
  IF result.status = "threw"
  THEN ErrorResponse(500,
         IF result.error.isError THEN result.error.message
         ELSE "Failed to parse resume data. Please try again.")
  ELSE IF \A k \in {"skills", "experience", "education"} :
            Len(result.value[k].a) = 0
  THEN ErrorResponse(400, NoMeaningfulData)
  ELSE JsonResponse(result.value)

\* route.ts 56-69: the response of /api/analyze once analyzeResume has ended
AnalyzeAnswer(result) ==
  IF result.status = "returned" THEN JsonResponse(result.value)
  ELSE RouteCatch(result.error)

\* the response of the route that awaits the stage, if a route does
RouteAnswer(entry, result, unanswered) ==
  CASE entry = "POST /api/analyze" -> AnalyzeAnswer(result)
    [] entry = "POST /api/parse-resume" -> ParseResumeAnswer(result)
    [] OTHER -> unanswered

\* parse-resume/route.ts 20-85: POST /api/parse-resume from the request to
\* the await of parseResumeFromText, or to the response when it does not
\* get there; pdfParse answers with parsed when extractTextFromPDF calls it
PostParseResume(file, parsed) ==
  /\ pc = "idle"
  /\ op' = "POST /api/parse-resume"
  /\ resumeFile' = file
  /\ UNCHANGED <<env, body, reply, ui, calls>>
  /\ \E invalid \in {ValidateFile(file)} :
       IF invalid # NoResponse
       THEN /\ Answer(invalid, NoFormat)
            /\ UNCHANGED <<fileBuffer, pdfData, extracted>>
       ELSE \E buffer \in {Buffer(file.bytes)} :
            \E result \in {extractTextFromPDF(buffer, parsed)} :
              /\ fileBuffer' = buffer
              /\ pdfData' = IF PdfParseCalled(buffer) THEN parsed ELSE NoPdfData
              /\ extracted' = result
              /\ IF result.status = "threw"
                 THEN Answer(ExtractionCatch(result.error), NoFormat)
                 ELSE IF result.text = "" \/ Len(Trim(result.text)) = 0
                 THEN Answer(ErrorResponse(400, NoTextInPdf), NoFormat)
                 ELSE /\ formatted' = NoFormat
                      /\ \E text \in {result.text} :
                           EnterStage("parseResumeFromText", "groq", text, "")
                      /\ response' = IF outcome'.status = "threw"
                                     THEN ParseResumeAnswer(outcome')
                                     ELSE NoResponse

\* ProviderReplies when a stage that failed submits its request once more
ProviderReplies_Retry(r) ==
  /\ pc = "submitted"
  /\ reply' = r
  /\ \E result \in {StageOutcome(stage, variant, r)} :
       IF result.status = "threw" /\ Len(requests) < 2
       THEN /\ outcome' = NoOutcome
            /\ response' = response
            /\ requests' = Append(requests, requests[1])
            /\ pc' = "submitted"
       ELSE /\ outcome' = result
            /\ response' = RouteAnswer(op, result, response)
            /\ requests' = requests
            /\ pc' = "done"
  /\ UNCHANGED <<env, op, stage, variant, resumeText, jobDescription, body,
                 formatted, pdfVars, ui, calls>>

\* the awaited provider call settles: the stage runs to its end, and so
\* does the route that awaits the stage
ProviderReplies(r) ==
  /\ pc = "submitted"
  /\ reply' = r
  /\ \E result \in {StageOutcome(stage, variant, r)} :
       /\ outcome' = result
       /\ response' = RouteAnswer(op, result, response)
  /\ pc' = "done"
  /\ UNCHANGED <<env, op, stage, variant, resumeText, jobDescription, body,
                 formatted, requests, pdfVars, ui, calls>>

\* nothing of an invocation is kept for the next one
Forget ==
  /\ pc' = "idle"
  /\ op' = "none"
  /\ stage' = "none"
  /\ variant' = "groq"
  /\ resumeText' = ""
  /\ jobDescription' = ""
  /\ body' = NoBody
  /\ formatted' = NoFormat
  /\ requests' = <<>>
  /\ reply' = NoReply
  /\ outcome' = NoOutcome
  /\ response' = NoResponse
  /\ resumeFile' = NoFile
  /\ fileBuffer' = NoBuffer
  /\ pdfData' = NoPdfData
  /\ extracted' = NoExtraction

\* the invocation is over; the next one starts from a clean slate
Return ==
  /\ pc = "done"
  /\ Forget
  /\ UNCHANGED <<env, ui, calls>>

Next ==
  \/ pc = "idle" /\ \E text \in ResumeTexts : CallParseResumeFromText(text)
  \/ pc = "idle" /\ \E var \in Providers, text \in FormattedTexts,
                        jd \in JobDescriptions : CallAnalyzeResume(var, text, jd)
  \/ pc = "idle" /\ \E r \in StructuredResumes : CallFormatResumeForAnalysis(r)
  \/ pc = "idle" /\ \E b \in Bodies : PostAnalyze(b)
  \/ pc = "idle" /\ \E buffer \in Buffers, parsed \in PdfResults :
                        CallExtractTextFromPDF(buffer, parsed)
  \/ pc = "idle" /\ \E file \in Files, parsed \in PdfResults :
                        PostParseResume(file, parsed)
  \/ pc = "submitted" /\ stage = "parseResumeFromText"
       /\ \E r \in ParserReplies : ProviderReplies(r)
  \/ pc = "submitted" /\ stage = "analyzeResume"
       /\ \E r \in AnalystReplies : ProviderReplies(r)
  \/ Return

Spec == Init /\ [][Next]_vars

(***************************************************************************)
(* The ResumeAnalyzer component and the two routes behind it.  The state   *)
(* of the component is the state of its last render; handleSubmit runs     *)
(* from one await to the next in one step, and React renders once for the  *)
(* state updates of a step.  The server handles the request the component  *)
(* awaits; the response the component reads ends the invocation there.     *)
(***************************************************************************)
\* the files the user selects; NoFile is the file removed
UIFiles ==
  {NoFile,
   File("text/plain", 12, "Jane Doe"),
   File("application/pdf", 2048, "<html>"),
   File("application/pdf", 2048, "%PDF-1.4")}
UIJobDescriptions == {"", " \n", "Looking for Python and Kubernetes expert"}
UIEnvironments ==
  {[p \in Providers |-> JUndef], [p \in Providers |-> JStr("sk-live-1")]}
UIPdfResults ==
  {PdfResolved(JObject, JStr("Jane Doe. Python developer at Acme.")),
   PdfResolved(JObject, JStr(" \n ")),
   PdfRejected(NewError("bad XRef entry"))}
EmptyResume ==
  Doc(JObject, Members(StrArr(<<>>), StrArr(<<>>), StrArr(<<>>), JStr(""), JUndef))
UIParserReplies ==
  {Completion(JStr(Stringify(GoodResume))),
   Completion(JStr(Stringify(EmptyResume))),
   Completion(JStr("quota exceeded")),
   Rejection(APIError(401, "Incorrect API key provided"))}
UIAnalystReplies ==
  {Completion(JStr(Stringify(GoodAnalysis))),
   Completion(JStr("{\"matchPercentage\":150}")),
   Rejection(APIError(429, "Rate limit reached for requests"))}

UIInit ==
  /\ Init
  /\ env \in UIEnvironments

\* FileUpload.tsx 23-49: the user selects, drops or removes a file
SelectFile(file) ==
  /\ ui' = [ui EXCEPT !.resumeFile = file]
  /\ UNCHANGED <<stageVars, pdfVars, calls>>

\* ResumeAnalyzer.tsx 115-123: the user edits the job description; the
\* textarea is disabled while loading
TypeJobDescription(text) ==
  /\ ~ui.loading
  /\ ui' = [ui EXCEPT !.jobDescription = text]
  /\ UNCHANGED <<stageVars, pdfVars, calls>>

\* handleSubmit when it does not clear analysis and error at its start
HandleSubmit_KeepResults ==
  /\ ~ui.loading
  /\ ui.awaiting = "none"
  /\ ui' = IF ~ui.resumeFile.present
           THEN [ui EXCEPT !.fetches = <<>>,
                           !.error = JStr("Please upload a resume file")]
           ELSE IF Len(Trim(ui.jobDescription)) = 0
           THEN [ui EXCEPT !.fetches = <<>>,
                           !.error = JStr("Please provide a job description")]
           ELSE [ui EXCEPT !.loading = TRUE,
                           !.sent = [resumeFile |-> ui.resumeFile,
                                     jobDescription |-> ui.jobDescription],
                           !.parsedResume = NoDoc,
                           !.fetches = <<"/api/parse-resume">>,
                           !.awaiting = "/api/parse-resume"]
  /\ UNCHANGED <<stageVars, pdfVars, calls>>

\* ResumeAnalyzer.tsx 21-46: handleSubmit to its first await, called in a
\* render in which loading is false (148)
HandleSubmit ==
  /\ ~ui.loading
  /\ ui.awaiting = "none"
  /\ ui' = IF ~ui.resumeFile.present
           THEN [ui EXCEPT !.analysis = Null, !.fetches = <<>>,
                           !.error = JStr("Please upload a resume file")]
           ELSE IF Len(Trim(ui.jobDescription)) = 0
           THEN [ui EXCEPT !.analysis = Null, !.fetches = <<>>,
                           !.error = JStr("Please provide a job description")]
           ELSE [ui EXCEPT !.analysis = Null, !.error = JNull,
                           !.loading = TRUE,
                           !.sent = [resumeFile |-> ui.resumeFile,
                                     jobDescription |-> ui.jobDescription],
                           !.parsedResume = NoDoc,
                           !.fetches = <<"/api/parse-resume">>,
                           !.awaiting = "/api/parse-resume"]
  /\ UNCHANGED <<stageVars, pdfVars, calls>>

\* ResumeAnalyzer.tsx 74-80: the catch and finally blocks
Failed(msg) ==
  [ui EXCEPT !.error = JStr(msg), !.loading = FALSE, !.awaiting = "none"]

\* errorData.error || fallback
ErrorOf(res, fallback) == IF res.error = "" THEN fallback ELSE res.error

\* handleSubmit when the response of /api/parse-resume is read without a
\* look at its status
ParseResponded_Unchecked ==
  /\ ui.awaiting = "/api/parse-resume"
  /\ pc = "done"
  /\ op = "POST /api/parse-resume"
  /\ \E parsedResume \in {JSONParse(Stringify(Doc(JObject, response.json)))} :
       ui' = [ui EXCEPT !.parsedResume = parsedResume.doc,
                        !.fetches = Append(ui.fetches, "/api/analyze"),
                        !.awaiting = "/api/analyze"]
  /\ Forget
  /\ UNCHANGED <<env, calls>>

\* ResumeAnalyzer.tsx 48-65: handleSubmit from the response of
\* /api/parse-resume to its fetch of /api/analyze, or to its end
ParseResponded ==
  /\ ui.awaiting = "/api/parse-resume"
  /\ pc = "done"
  /\ op = "POST /api/parse-resume"
  /\ IF response.status # 200
     THEN ui' = Failed(ErrorOf(response, "Resume parsing failed"))
     ELSE \E parsedResume \in {JSONParse(Stringify(Doc(JObject, response.json)))} :
            ui' = [ui EXCEPT !.parsedResume = parsedResume.doc,
                             !.fetches = Append(ui.fetches, "/api/analyze"),
                             !.awaiting = "/api/analyze"]
  /\ Forget
  /\ UNCHANGED <<env, calls>>

\* ResumeAnalyzer.tsx 67-80: handleSubmit from the response of /api/analyze
\* to its end
AnalyzeResponded ==
  /\ ui.awaiting = "/api/analyze"
  /\ pc = "done"
  /\ op = "POST /api/analyze"
  /\ ui' = IF response.status # 200
           THEN Failed(ErrorOf(response, "Analysis failed"))
           ELSE [ui EXCEPT !.analysis = Doc(JObject, response.json),
                           !.loading = FALSE, !.awaiting = "none"]
  /\ Forget
  /\ UNCHANGED <<env, calls>>

\* the awaited fetch rejects: the request did not get to the server
FetchFailed ==
  /\ ui.awaiting # "none"
  /\ pc = "idle"
  /\ ui' = Failed("Failed to fetch")
  /\ UNCHANGED <<stageVars, pdfVars, calls>>

\* ResumeAnalyzer.tsx 83-88; the button is rendered when analysis is set
\* (153)
HandleReset ==
  /\ Truthy(ui.analysis.v)
  /\ ui' = [ui EXCEPT !.resumeFile = NoFile, !.jobDescription = "",
                      !.analysis = Null, !.error = JNull]
  /\ UNCHANGED <<stageVars, pdfVars, calls>>

\* ResumeAnalyzer.tsx 61-64: the body handleSubmit posts to /api/analyze
PostedBody ==
  [parsedResume |-> ui.parsedResume,
   jobDescription |-> JStr(ui.sent.jobDescription)]

\* the server handles the request the component awaits
ServeParseResume ==
  /\ ui.awaiting = "/api/parse-resume"
  /\ \E parsed \in UIPdfResults : PostParseResume(ui.sent.resumeFile, parsed)

ServeAnalyze ==
  /\ ui.awaiting = "/api/analyze"
  /\ PostAnalyze(PostedBody)

Served ==
  \/ ServeParseResume
  \/ ServeAnalyze
  \/ \E r \in UIParserReplies :
       stage = "parseResumeFromText" /\ ProviderReplies(r)
  \/ \E r \in UIAnalystReplies : stage = "analyzeResume" /\ ProviderReplies(r)
  \/ ParseResponded
  \/ AnalyzeResponded

UINext ==
  \/ \E file \in UIFiles : SelectFile(file)
  \/ \E text \in UIJobDescriptions : TypeJobDescription(text)
  \/ HandleSubmit
  \/ HandleReset
  \/ FetchFailed
  \/ Served

\* every request is answered: the routes end in a response on every path,
\* and the awaited calls of the provider and of fetch settle
UISpec == UIInit /\ [][UINext]_vars /\ WF_vars(Served)

(***************************************************************************)
(* Concurrent invocations of the stages.  Each invocation has its own      *)
(* local variables (calls[i]): the credential it read, the client it       *)
(* constructed with it and the request that client submitted.  process.env *)
(* is the one thing the invocations share, and none of them writes it.     *)
(***************************************************************************)
ConcEnvironments ==
  {[p \in Providers |-> JUndef], [p \in Providers |-> JStr("sk-live-1")]}
ConcStages ==
  {<<"parseResumeFromText", "groq", "Jane Doe. Python developer at Acme.", "">>,
   <<"analyzeResume", "groq", "Skills: Python",
     "Looking for Python and Kubernetes expert">>,
   <<"analyzeResume", "gemini", "Skills: Python",
     "Looking for Python and Kubernetes expert">>}
ConcReplies ==
  {Completion(JStr(Stringify(GoodResume))),
   Completion(JStr(Stringify(GoodAnalysis))),
   Completion(JStr("quota exceeded")),
   Rejection(APIError(401, "Incorrect API key provided"))}

ConcInit ==
  /\ Init
  /\ env \in ConcEnvironments

\* groq.ts 24-73, resumeParser.ts 38-86, openai.ts 186-241: invocation i
\* of a stage from its entry to its await
Invoke(i, stg, var, text, jd) ==
  /\ calls[i].pc = "idle"
  /\ \E apiKey \in {env[var]} :
       calls' = [calls EXCEPT ![i] =
         IF ~HasApiKey(apiKey)
         THEN [@ EXCEPT !.pc = "done", !.stage = stg, !.variant = var,
                        !.resumeText = text, !.jobDescription = jd,
                        !.apiKey = apiKey,
                        !.outcome = Threw(NewError(NotConfigured(var)))]
         ELSE [@ EXCEPT !.pc = "submitted", !.stage = stg, !.variant = var,
                        !.resumeText = text, !.jobDescription = jd,
                        !.apiKey = apiKey,
                        !.requests = <<StageRequest(stg, var, text, jd)>>]]
  /\ UNCHANGED <<stageVars, pdfVars, ui>>

\* Settle when the invocations share one client, which remembers the stage
\* of the last invocation that is still waiting
Settle_SharedClient(i, r) ==
  /\ calls[i].pc = "submitted"
  /\ \E last \in {CHOOSE j \in Invocations :
                    /\ calls[j].pc = "submitted"
                    /\ \A k \in Invocations : calls[k].pc = "submitted" => k <= j} :
       calls' = [calls EXCEPT ![i] =
         [@ EXCEPT !.pc = "done", !.reply = r,
                   !.outcome = StageOutcome(calls[last].stage,
                                            calls[last].variant, r)]]
  /\ UNCHANGED <<stageVars, pdfVars, ui>>

\* groq.ts 75-151, resumeParser.ts 88-158, openai.ts 243-343: the call that
\* invocation i awaits settles with r, and the invocation runs to its end
Settle(i, r) ==
  /\ calls[i].pc = "submitted"
  /\ calls' = [calls EXCEPT ![i] =
       [@ EXCEPT !.pc = "done", !.reply = r,
                 !.outcome = StageOutcome(calls[i].stage, calls[i].variant, r)]]
  /\ UNCHANGED <<stageVars, pdfVars, ui>>

ConcNext ==
  \/ \E i \in Invocations, c \in ConcStages : Invoke(i, c[1], c[2], c[3], c[4])
  \/ \E i \in Invocations, r \in ConcReplies : Settle(i, r)

ConcSpec == ConcInit /\ [][ConcNext]_vars

(***************************************************************************)
(* Properties.                                                             *)
(***************************************************************************)
\* what the stage decoded from the content of the reply: JSON.parse of the
\* text the stage hands it
Decoded ==
  IF reply.kind = "completion" /\ reply.content.t = "string"
  THEN JSONParse(IF stage = "analyzeResume" /\ variant = "gemini"
                 THEN GeminiJsonContent(reply.content.s)
                 ELSE reply.content.s)
  ELSE [ok |-> FALSE, doc |-> NoDoc, message |-> ""]

ListKeys == {"skills", "experience", "education"}
Missing(k) == Decoded.doc.f[k].t = "undefined"
WellTyped(k) ==
  IF k = "contact" THEN Decoded.doc.f[k].t = "string"
  ELSE IsStringArray(Decoded.doc.f[k])
ParserDecodedObject ==
  /\ pc = "done"
  /\ stage = "parseResumeFromText"
  /\ Decoded.ok
  /\ Decoded.doc.v.t = "object"

\* C1: when the reply decodes to an object that lacks some of skills,
\* experience, education, contact (and whose other members are well typed),
\* parseResumeFromText returns a record in which each missing list is empty
\* and a missing contact is "Not provided".
C1_MissingFieldsDefaulted ==
  (/\ ParserDecodedObject
   /\ \E k \in ResumeKeys : Missing(k)
   /\ \A k \in ResumeKeys : Missing(k) \/ WellTyped(k))
  => /\ outcome.status = "returned"
     /\ \A k \in ListKeys : Missing(k) => outcome.value[k] = JArr(<<>>)
     /\ Missing("contact") => outcome.value["contact"] = JStr("Not provided")

InRange(p) == p.t = "number" /\ 0 <= p.n /\ p.n <= 100

\* C2: in each of the three analyzeResume variants, a decoded reply whose
\* matchPercentage is not a number in [0, 100] ends in the error "Invalid
\* response structure from AI", and a result that is returned carries the
\* decoded matchPercentage itself, which is in [0, 100].
C2_PercentageValidated ==
  (pc = "done" /\ stage = "analyzeResume")
  => /\ (Decoded.ok /\ ~InRange(Decoded.doc.f["matchPercentage"]))
          => /\ outcome.status = "threw"
             /\ StartsWith(outcome.error.message, InvalidResponseStructure)
     /\ outcome.status = "returned"
          => /\ Decoded.ok
             /\ InRange(outcome.value["matchPercentage"])
             /\ outcome.value["matchPercentage"] = Decoded.doc.f["matchPercentage"]

C2_Witness ==
  /\ pc = "done"
  /\ stage = "analyzeResume"
  /\ variant = "gemini"
  /\ Decoded.ok
  /\ Decoded.doc.f["matchPercentage"] = JNum(101)
  /\ outcome.status = "threw"

\* C3: a record parseResumeFromText returns has the members skills,
\* experience, education (arrays of strings) and contact (a string) and no
\* other member; a reply whose four members are well typed is accepted
\* with or without further members.
C3_ExactlyFourFields ==
  /\ (stage = "parseResumeFromText" /\ outcome.status = "returned")
       => \A k \in Keys :
            CASE k \in ListKeys -> IsStringArray(outcome.value[k])
              [] k = "contact" -> outcome.value[k].t = "string"
              [] OTHER -> outcome.value[k].t = "undefined"
  /\ (ParserDecodedObject /\ \A k \in ResumeKeys : WellTyped(k))
       => outcome.status = "returned"

C3_Witness ==
  /\ ParserDecodedObject
  /\ Decoded.doc.f["name"] = JStr("Jane Doe")
  /\ outcome.status = "returned"
  /\ outcome.value["skills"] = StrArr(<<"Python", "AWS">>)

\* C4: when the reply decodes to a value in which a member that is present
\* has the wrong type (or that is no object), parseResumeFromText throws
\* "Invalid resume structure from parser" and returns no record.
C4_WrongTypeRejected ==
  (/\ pc = "done"
   /\ stage = "parseResumeFromText"
   /\ Decoded.ok
   /\ \/ Decoded.doc.v.t # "object"
      \/ \E k \in ResumeKeys : ~Missing(k) /\ ~WellTyped(k))
  => /\ outcome.status = "threw"
     /\ StartsWith(outcome.error.message, InvalidResumeStructure)
     /\ outcome.value = NoMembers

C4_Witness ==
  /\ ParserDecodedObject
  /\ Decoded.doc.f["skills"] = JNull
  /\ \A k \in ResumeKeys \ {"skills"} : WellTyped(k)
  /\ outcome.status = "threw"

FormatterCalled == pc = "done" /\ op = "formatResumeForAnalysis"
Argument == body.parsedResume.f

\* C5: formatResumeForAnalysis on a StructuredResume returns a string and
\* never throws, and the string is empty when the three lists are empty.
C5_FormatterTotal ==
  FormatterCalled
  => /\ formatted.status = "returned"
     /\ (\A k \in ListKeys : Argument[k] = JArr(<<>>)) => formatted.text = ""

C5_Witness ==
  /\ FormatterCalled
  /\ \A k \in ListKeys : Argument[k] = JArr(<<>>)
  /\ formatted.text = ""

\* the three sections as the claim words them
SkillsSection == "Skills: " \o JoinArray(Argument["skills"], ", ")
ExperienceSection == "Experience:" \o "\n" \o JoinArray(Argument["experience"], "\n")
EducationSection == "Education:" \o "\n" \o JoinArray(Argument["education"], "\n")
Has(k) == Len(Argument[k].a) > 0

\* C6: the text is the sections of the non-empty lists, in the order
\* Skills, Experience, Education, with "\n\n" between two sections and
\* nothing before the first or after the last.
C6_SectionsInOrder ==
  FormatterCalled
  => formatted.text =
       CASE Has("skills") /\ Has("experience") /\ Has("education") ->
              SkillsSection \o "\n\n" \o ExperienceSection \o "\n\n" \o EducationSection
         [] Has("skills") /\ Has("experience") /\ ~Has("education") ->
              SkillsSection \o "\n\n" \o ExperienceSection
         [] Has("skills") /\ ~Has("experience") /\ Has("education") ->
              SkillsSection \o "\n\n" \o EducationSection
         [] ~Has("skills") /\ Has("experience") /\ Has("education") ->
              ExperienceSection \o "\n\n" \o EducationSection
         [] Has("skills") /\ ~Has("experience") /\ ~Has("education") -> SkillsSection
         [] ~Has("skills") /\ Has("experience") /\ ~Has("education") -> ExperienceSection
         [] ~Has("skills") /\ ~Has("experience") /\ Has("education") -> EducationSection
         [] OTHER -> ""

C6_Witness ==
  /\ FormatterCalled
  /\ formatted.text =
       "Skills: Python, AWS\n\nExperience:\nEngineer at Acme (2020-2023)\n"
         \o "Engineer at Acme (2020-2023)\n\nEducation:\nBS in Computer Science"

OtherContacts == {"jane@x.io", "Not provided", "+1 555 0100"}
WithContact(r, c) == [r EXCEPT !["contact"] = JStr(c)]

\* C7: the text depends on skills, experience and education only: a record
\* with another contact formats to the same text, and the prompt the
\* analyze route submits is the one it would submit had the posted record
\* any other contact.
C7_ContactNotFormatted ==
  /\ FormatterCalled
       => \A c \in OtherContacts :
            formatResumeForAnalysis(WithContact(Argument, c)).text = formatted.text
  /\ (op = "POST /api/analyze" /\ requests # <<>>)
       => \A c \in OtherContacts :
            requests[1].prompt[2] =
              AnalystUserPrompt(formatResumeForAnalysis(WithContact(Argument, c)).text,
                                body.jobDescription.s)

C7_Witness ==
  /\ op = "POST /api/analyze"
  /\ Len(requests) = 1
  /\ Argument["contact"] = JStr("jane@x.io")
  /\ Argument["skills"] = StrArr(<<"Python">>)

\* C8: a stage entered while the credential of its provider is not in the
\* environment ends at once in the "... is not configured" error, and no
\* request has been submitted.
C8_NoKeyNoRequest ==
  (stage # "none" /\ env[variant] \in {JUndef, JStr("")})
  => /\ pc = "done"
     /\ requests = <<>>
     /\ outcome.status = "threw"
     /\ outcome.error.message = NotConfigured(variant)
     /\ reply = NoReply

C8_Witness ==
  /\ stage = "analyzeResume"
  /\ variant = "gemini"
  /\ env["gemini"] = JUndef
  /\ outcome.error.message = NotConfigured("gemini")

Blank(jd) == jd.t = "string" /\ Trim(jd.s) = ""

C10_EmptyResumeTextRejected ==
  (stage = "analyzeResume" /\ resumeText = "")
  => /\ requests = <<>>
     /\ pc = "done"
     /\ outcome.status = "threw"


\* C11: parseResumeFromText entered with a text that is empty after trimming
\* throws and submits nothing to the provider.
C11_BlankResumeTextRejected ==
  (stage = "parseResumeFromText" /\ Trim(resumeText) = "")
  => /\ requests = <<>>
     /\ pc = "done"
     /\ outcome.status = "threw"


\* the provider call of the stage failed with this HTTP status
FailedWithStatus(status) ==
  /\ pc = "done"
  /\ stage # "none"
  /\ reply.kind = "error"
  /\ reply.error.hasStatus
  /\ reply.error.status = status

\* the authentication error of the handler of a stage
AuthenticationFailed(stg, var) ==
  IF stg = "parseResumeFromText" THEN ParserAuthFailed
  ELSE CASE var = "groq" -> GroqAuthFailed
         [] var = "openai" -> OpenAIAuthFailed
         [] var = "gemini" -> GeminiAuthFailed

\* the message tells to check or obtain the API key
HasKeyGuidance(m) == Includes(m, "API key") \/ Includes(m, "API_KEY")

\* C12: a stage whose provider call failed with status 401 throws the
\* authentication error of its handler, whose message tells to check the
\* API key, and it has submitted one request only.
C12_UnauthorizedIsAuthenticationError ==
  FailedWithStatus(401)
  => /\ outcome.status = "threw"
     /\ outcome.error.message = AuthenticationFailed(stage, variant)
     /\ HasKeyGuidance(outcome.error.message)
     /\ Len(requests) = 1


\* the rate-limit errors of the handler of a stage
RateLimited(stg, var) ==
  IF stg = "parseResumeFromText" THEN {ParserRateLimit}
  ELSE CASE var = "groq" -> {GroqRateLimit, GroqRateLimitGeneric}
         [] var = "openai" -> {OpenAIQuota, OpenAIRateLimitStatus, OpenAIRateLimit}
         [] var = "gemini" -> {GeminiQuota}

\* C13: a stage whose provider call failed with status 429 throws a
\* rate-limit error of its handler, and the message of the thrown error
\* still contains the message of the provider's error.
C13_RateLimitKeepsProviderMessage ==
  (FailedWithStatus(429) /\ reply.error.hasMessage)
  => /\ outcome.status = "threw"
     /\ outcome.error.message \in RateLimited(stage, variant)
     /\ Includes(outcome.error.message, reply.error.message)


\* the provider answered with a non-empty content that JSON.parse rejects
NotJson ==
  /\ pc = "done"
  /\ stage # "none"
  /\ reply.kind = "completion"
  /\ Truthy(reply.content)
  /\ ~Decoded.ok

\* C14: a stage whose provider answered with a non-empty content that is
\* not JSON throws "Failed to parse JSON response: " followed by the
\* message of the decode error; it returns no record and has submitted one
\* request only.
C14_NotJsonIsMalformedResponse ==
  NotJson
  => /\ outcome.status = "threw"
     /\ outcome.value = NoMembers
     /\ outcome.error.message = FailedToParse \o Decoded.message
     /\ Len(requests) = 1


\* the JSON payloads that the model wraps, and a payload in code fences:
\* with the json tag, with no tag, with another tag
Payloads == {Stringify(GoodResume), Stringify(GoodAnalysis)}
Fenced(p) ==
  {Fence \o "json\n" \o p \o "\n" \o Fence,
   Fence \o "\n" \o p \o "\n" \o Fence,
   Fence \o "js\n" \o p \o "\n" \o Fence}

\* C15: the outcome of a stage on a payload in code fences is its outcome
\* on the payload itself, in parseResumeFromText and in the three variants
\* of analyzeResume, and the stripping leaves a payload without fences as
\* it is.
C15_FencesStripped ==
  (pc = "done" /\ stage # "none" /\ reply.kind = "completion")
  => \A p \in Payloads :
       /\ reply.content.s \in Fenced(p)
            => outcome = StageOutcome(stage, variant, Completion(JStr(p)))
       /\ reply.content.s = p => GeminiJsonContent(reply.content.s) = p


\* the members of the record a stage returns
ResultKeys(stg) == IF stg = "parseResumeFromText" THEN ResumeKeys ELSE AnalysisKeys

\* an invocation of a stage awaits the one request it has submitted
AwaitsProvider ==
  /\ Len(requests) = 1
  /\ reply = NoReply
  /\ outcome = NoOutcome

\* an invocation of a stage is over: it returned a whole record for the
\* completion of its one request, or it threw
Terminal ==
  /\ Len(requests) <= 1
  /\ outcome.status \in {"returned", "threw"}
  /\ outcome.status = "returned"
       => /\ Len(requests) = 1
          /\ reply.kind = "completion"
          /\ \A k \in ResultKeys(stage) : outcome.value[k].t # "undefined"
  /\ outcome.status = "threw"
       => outcome.value = NoMembers /\ outcome.error.isError

\* C16: an invocation of a stage goes from idle to submitted, with one
\* request, or straight to its end; from submitted the reply takes it to
\* its end with the same one request and an outcome that is a whole record
\* or an error; from its end the only step is the end of the invocation,
\* so the outcome never changes and nothing is submitted again.
C16_OneCallOneOutcome ==
  /\ []((stage # "none" /\ pc = "submitted") => AwaitsProvider)
  /\ []((stage # "none" /\ pc = "done") => Terminal)
  /\ [][(pc = "idle" /\ stage' # "none") => pc' \in {"submitted", "done"}]_vars
  /\ [][pc = "submitted"
          => pc' = "done" /\ requests' = requests /\ reply' # NoReply]_vars
  /\ [][pc = "done" => pc' = "idle" /\ stage' = "none" /\ requests' = <<>>]_vars

C16_Witness ==
  /\ pc = "done"
  /\ stage = "parseResumeFromText"
  /\ reply.kind = "error"
  /\ reply.error.status = 500
  /\ outcome.status = "threw"
  /\ Len(requests) = 1


\* the provider call of the stage threw, and the stage has ended
ProviderFailed == pc = "done" /\ stage # "none" /\ reply.kind = "error"

\* C17: the error a stage throws for a failed provider call is decided by
\* the status of the provider's error when it has one (401: authentication
\* error, 429: rate-limit error, whatever the message says) and by the
\* words of its message when it has none, in every handler.
C17_StatusThenMessage ==
  ProviderFailed
  => /\ (reply.error.hasStatus /\ reply.error.status = 401)
          => outcome.error.message = AuthenticationFailed(stage, variant)
     /\ (reply.error.hasStatus /\ reply.error.status = 429)
          => outcome.error.message \in RateLimited(stage, variant)
     /\ (~reply.error.hasStatus /\ reply.error.hasMessage)
          => /\ GroqRateLimitText(reply.error.message)
                  => outcome.error.message \in RateLimited(stage, variant)
             /\ (GroqAuthText(reply.error.message)
                   /\ ~GroqRateLimitText(reply.error.message))
                  => outcome.error.message = AuthenticationFailed(stage, variant)


\* the message has none of the words the handlers search for
NoTriggerWord(m) ==
  /\ ~GroqRateLimitText(m)
  /\ ~GroqAuthText(m)
  /\ ~GeminiNotFoundText(m)
  /\ ~GeminiQuotaText(m)
  /\ ~IncludesAny(ToLowerCase(m), {"billing", "exceeded"})

\* the provider call threw an Error with a status and a message that is
\* no authentication, rate-limit or model failure
OtherProviderFailure ==
  /\ ProviderFailed
  /\ reply.error.isError
  /\ reply.error.hasStatus
  /\ reply.error.status \notin {0, 401, 404, 429}
  /\ reply.error.hasMessage
  /\ NoTriggerWord(reply.error.message)

KnownModels == {"gemini-pro", "gemini-1.5-flash", "gemini-1.5-pro"}

\* C19: a stage whose provider call failed with status 404 throws the
\* model-unavailable error, which names the requested model and lists two
\* model names to try, both other than the requested model; in every
\* variant.
C19_ModelUnavailableListsOtherModels ==
  FailedWithStatus(404)
  => /\ outcome.status = "threw"
     /\ \E alternatives \in [1..2 -> KnownModels \ {ModelName(variant)}] :
          outcome.error.message = ModelUnavailable(ModelName(variant), alternatives)


\* what the schema of the stage makes of a decoded reply
Validated(decoded) ==
  IF stage = "parseResumeFromText" THEN ParsedResumeSchema(decoded.doc)
  ELSE AnalysisResultSchema(decoded.doc)

\* the provider answered with a non-empty content, which decoded to a
\* value that the schema of the stage accepted
ValidReply(decoded, validated) ==
  /\ reply.kind = "completion"
  /\ Truthy(reply.content)
  /\ decoded.ok
  /\ validated.status = "returned"

C25_DecodeFailureKindFixed ==
  NotJson
  => /\ outcome.status = "threw"
     /\ StartsWith(outcome.error.message, FailedToParse)
     /\ outcome.error.message \notin RateLimited(stage, variant)
     /\ outcome.error.message # AuthenticationFailed(stage, variant)



\* the message of the provider's error, when the handlers inspect it
Inspected == reply.error.isObject /\ reply.error.hasMessage

\* C26: the handlers classify by first match.  A reply that the schema
\* rejects ends in the invalid-structure error.  For a failed provider call
\* whose error has a message: parseResumeFromText and the Groq variant
\* report the rate-limit error when the message has a rate-limit word, and
\* the authentication error only when it has an authentication word and no
\* rate-limit word; the Gemini variant reports the unavailable model when
\* the message has a not-found word, else the quota error when it has a
\* quota word, else the authentication error when it has an authentication
\* word.
C26_FirstMatchClassification ==
  /\ (pc = "done" /\ stage # "none" /\ reply.kind = "completion")
       => \E decoded \in {Decoded} :
            (decoded.ok /\ Validated(decoded).status = "threw")
            => /\ outcome.status = "threw"
               /\ StartsWith(outcome.error.message,
                             IF stage = "parseResumeFromText"
                             THEN InvalidResumeStructure
                             ELSE InvalidResponseStructure)
  /\ (ProviderFailed /\ Inspected)
       => \E m \in {reply.error.message} :
            IF stage = "parseResumeFromText" \/ variant = "groq"
            THEN IF GroqRateLimitText(m)
                 THEN outcome.error.message \in RateLimited(stage, variant)
                 ELSE GroqAuthText(m)
                      => outcome.error.message
                           = AuthenticationFailed(stage, variant)
            ELSE variant = "gemini"
                 => IF GeminiNotFoundText(m)
                    THEN outcome.error.message = GeminiModelUnavailable
                    ELSE IF GeminiQuotaText(m)
                    THEN outcome.error.message = GeminiQuota
                    ELSE GeminiAuthText(m)
                         => outcome.error.message = GeminiAuthFailed

C26_Witness ==
  /\ ProviderFailed
  /\ Inspected
  /\ variant = "gemini"
  /\ GeminiNotFoundText(reply.error.message)
  /\ GeminiQuotaText(reply.error.message)
  /\ GeminiAuthText(reply.error.message)
  /\ outcome.error.message = GeminiModelUnavailable



\* extractTextFromPDF has ended, called on its own or by the route
ExtractionEnded == pc # "idle" /\ extracted.status # "none"

\* the text pdfParse gave back is missing, no string, empty or blank
NoReadableText ==
  /\ pdfData.kind = "resolved"
  /\ pdfData.data.t = "object"
  /\ pdfData.text.t = "string" => Len(Trim(pdfData.text.s)) = 0

DescriptiveError(result) ==
  /\ result.status = "threw"
  /\ result.error.isError
  /\ result.error.message # ""

\* C24: extractTextFromPDF never returns an empty string: what it returns is
\* trimmed and has a character at least; it throws an Error with a message
\* when the buffer is undefined or empty, when the first four bytes are not
\* "%PDF", and when the text pdfParse gave back is empty or blank.
C24_ExtractedTextNeverBlank ==
  ExtractionEnded
  => /\ extracted.status = "returned"
          => /\ Len(extracted.text) >= 1
             /\ Trim(extracted.text) = extracted.text
     /\ (fileBuffer.t = "undefined" \/ Len(fileBuffer.bytes) = 0)
          => DescriptiveError(extracted) /\ extracted.error.message = EmptyBuffer
     /\ (fileBuffer.t # "undefined" /\ Len(fileBuffer.bytes) > 0
           /\ ~StartsWith(fileBuffer.bytes, "%PDF"))
          => DescriptiveError(extracted) /\ extracted.error.message = NotAPdf
     /\ NoReadableText
          => /\ DescriptiveError(extracted)
             /\ Includes(extracted.error.message, NoTextInPdf)

C24_Witness ==
  /\ ExtractionEnded
  /\ op = "extractTextFromPDF"
  /\ pdfData.text = JStr(" \nJane Doe\n ")
  /\ extracted = Extracted("Jane Doe")



\* POST /api/parse-resume has got to its await of the provider or to its end
ParseRouteCalled == pc # "idle" /\ op = "POST /api/parse-resume"

Rejected(msg) ==
  /\ response = ErrorResponse(400, msg)
  /\ requests = <<>>
  /\ stage = "none"

\* C29: POST /api/parse-resume checks, in this order, that a file was
\* uploaded, that its type is application/pdf, that its size is at most
\* 10 MB, and that extractTextFromPDF returns a text that is not blank.  The
\* first check that fails answers 400 and no request is submitted to the
\* provider; a request is submitted only for an upload that passed all four.
C29_ChecksBeforeProviderCall ==
  ParseRouteCalled
  => /\ IF ~resumeFile.present THEN Rejected("Resume file is required")
        ELSE IF resumeFile.type # "application/pdf"
        THEN Rejected("Only PDF files are supported")
        ELSE IF resumeFile.size > 10 * 1024 * 1024
        THEN Rejected("File size exceeds 10MB limit. Please upload a smaller file.")
        ELSE IF extracted.status # "returned"
        THEN /\ extracted.status = "threw"
             /\ Rejected(extracted.error.message)
        ELSE /\ Len(Trim(extracted.text)) > 0
             /\ stage = "parseResumeFromText"
             /\ resumeText = extracted.text
     /\ requests # <<>>
          => /\ resumeFile.present
             /\ resumeFile.type = "application/pdf"
             /\ resumeFile.size <= 10 * 1024 * 1024
             /\ extracted.status = "returned"
             /\ requests = <<StageRequest("parseResumeFromText", "groq",
                                          extracted.text, "")>>

C29_Witness ==
  /\ ParseRouteCalled
  /\ resumeFile.type = "application/pdf"
  /\ resumeFile.size = 2048
  /\ extracted.status = "threw"
  /\ Rejected(InvalidPdfFormat)



\* a route has answered
ParseRouteEnded == pc = "done" /\ op = "POST /api/parse-resume"
AnalyzeRouteEnded == pc = "done" /\ op = "POST /api/analyze"

\* the body of an error response is {error: message}
ErrorBody ==
  /\ response.error # ""
  /\ response.json = NoMembers

\* the job description of the body is missing, empty or blank
NoJobDescription ==
  \/ body.jobDescription.t \in {"undefined", "null"}
  \/ body.jobDescription.t = "string" /\ Len(Trim(body.jobDescription.s)) = 0

RecordReturned == ParseRouteEnded /\ response.status = 200

\* the record as the analyze route reads it when the client posts it back:
\* NextResponse.json writes it, the client reads and writes it again, and
\* request.json() reads it
PostedBack == JSONParse(Stringify(Doc(JObject, response.json)))

\* C27: a record that POST /api/parse-resume returned with 200 has its three
\* lists, not all of them empty, and a contact that is a non-empty string;
\* posted back unchanged to POST /api/analyze with a job description that is
\* not blank, it passes the checks of the body (no 'Invalid parsed resume
\* structure'), and the text formatResumeForAnalysis builds from it is not
\* empty.
C27_ReturnedRecordIsAccepted ==
  RecordReturned
  => \E posted \in {PostedBack} :
       /\ posted.ok
       /\ posted.doc.f = response.json
       /\ \A k \in ListKeys : posted.doc.f[k].t = "array"
       /\ \E k \in ListKeys : Len(posted.doc.f[k].a) > 0
       /\ posted.doc.f["contact"].t = "string"
       /\ posted.doc.f["contact"].s # ""
       /\ \A jd \in {j \in JobDescriptions : Len(Trim(j)) > 0} :
            ValidateBody([parsedResume |-> posted.doc,
                          jobDescription |-> JStr(jd)]) = NoResponse
       /\ \E fmt \in {formatResumeForAnalysis(posted.doc.f)} :
            fmt.status = "returned" /\ fmt.text # ""

C27_Witness ==
  /\ RecordReturned
  /\ Decoded.ok
  /\ Decoded.doc.f["contact"] = JStr("")
  /\ response.json["contact"] = JStr("Not provided")



\* the record handleSubmit read from the response of /api/parse-resume has
\* the structure of a ParsedResume
StructuredRecord(doc) ==
  /\ doc.v.t = "object"
  /\ \A k \in ListKeys : IsStringArray(doc.f[k])
  /\ doc.f["contact"].t = "string"

AnalyzeFetched ==
  ui.awaiting = "/api/analyze" \/ \E i \in 1..Len(ui.fetches) : ui.fetches[i] = "/api/analyze"

\* C22: in a run of handleSubmit, /api/analyze is fetched only after
\* /api/parse-resume answered 200 with the record its stage returned, and
\* that record is what is posted; analyzeResume is called with the text
\* formatResumeForAnalysis builds from that record and with the job
\* description of the submit; and when /api/parse-resume does not answer
\* 200 the run ends with an error and /api/analyze is not fetched.
C22_ExtractionFormatterAnalysis ==
  /\ [](AnalyzeFetched
          => /\ ui.fetches = <<"/api/parse-resume", "/api/analyze">>
             /\ StructuredRecord(ui.parsedResume))
  /\ []((pc # "idle" /\ op = "POST /api/analyze")
          => /\ ui.awaiting = "/api/analyze"
             /\ body.parsedResume = ui.parsedResume
             /\ stage = "analyzeResume"
             /\ \E fmt \in {formatResumeForAnalysis(ui.parsedResume.f)} :
                  /\ fmt.status = "returned"
                  /\ resumeText = fmt.text
             /\ jobDescription = ui.sent.jobDescription)
  /\ [][(ui.awaiting # "/api/analyze" /\ ui'.awaiting = "/api/analyze")
          => /\ ui.awaiting = "/api/parse-resume"
             /\ pc = "done"
             /\ op = "POST /api/parse-resume"
             /\ response.status = 200
             /\ outcome.status = "returned"
             /\ ui'.parsedResume = Doc(JObject, outcome.value)]_vars
  /\ [][(ui.awaiting = "/api/parse-resume" /\ ui'.awaiting # "/api/parse-resume"
           /\ response.status # 200)
          => /\ ui'.awaiting = "none"
             /\ ui'.fetches = <<"/api/parse-resume">>
             /\ ui'.error # JNull
             /\ ~ui'.loading]_vars

C22_Witness ==
  /\ pc = "submitted"
  /\ op = "POST /api/analyze"
  /\ ui.awaiting = "/api/analyze"
  /\ resumeText = "Skills: Python"
  /\ Len(requests) = 1


ExactlyOneSet == (ui.analysis # Null) # (ui.error # JNull)

\* C28: in the ResumeAnalyzer component, while loading is true analysis and
\* error are null, so that neither Reset nor a second submit can start;
\* analysis and error are never both set; a submit with no file or with a
\* blank job description sets error and fetches nothing; a submit that
\* started ends with loading false and exactly one of analysis and error
\* set, and every submit that started does end.
C28_LoadingAnalysisError ==
  /\ [](ui.loading => /\ ui.analysis = Null
                      /\ ui.error = JNull
                      /\ ~ENABLED HandleReset
                      /\ ~ENABLED HandleSubmit)
  /\ [](ui.analysis = Null \/ ui.error = JNull)
  /\ [][(HandleSubmit /\ (\/ ~ui.resumeFile.present
                          \/ Len(Trim(ui.jobDescription)) = 0))
          => /\ ui'.error # JNull
             /\ ui'.analysis = Null
             /\ ~ui'.loading
             /\ ui'.fetches = <<>>
             /\ ui'.awaiting = "none"
             /\ UNCHANGED <<stageVars, pdfVars>>]_vars
  /\ [][(ui.loading /\ ~ui'.loading)
          => (ui'.analysis # Null) # (ui'.error # JNull)]_vars
  /\ (ui.loading ~> (~ui.loading /\ ExactlyOneSet))

C28_Witness ==
  /\ ~ui.loading
  /\ ui.fetches = <<"/api/parse-resume", "/api/analyze">>
  /\ ui.analysis = Doc(JObject, GoodAnalysis.f)
  /\ ui.error = JNull



\* what an invocation gives when it runs alone with the arguments, the
\* credential and the reply of c: the outcome of the single invocation of
\* EnterStage and ProviderReplies
Alone(c) ==
  IF ~HasApiKey(c.apiKey) THEN Threw(NewError(NotConfigured(c.variant)))
  ELSE StageOutcome(c.stage, c.variant, c.reply)

====
